---- MODULE Spec2Model ----
(***************************************************************************)
(* Model of the chemistry formula pipeline:                                *)
(*   chemistry/formula/tokenizer.py  (tokenize and its state functions)    *)
(*   chemistry/formula/parser.py     (_parse_pass_one, _parse_pass_two,    *)
(*                                    parse_formula, FormulaRoot.flatten)  *)
(*   chemistry/scinotation.py        (Count, Scinot)                       *)
(* A formula is a sequence of one-character strings.  Token values, ion    *)
(* names and symbols are sequences of characters as well, so that string   *)
(* concatenation, len() and slicing are the sequence operations.           *)
(***************************************************************************)
EXTENDS Integers, Sequences, FiniteSets, TLC

\* ------------------------------------------------------------------------
\* Bounds of the model
\* ------------------------------------------------------------------------
\* longest formula enumerated exhaustively over Alphabet
MaxLen == 4

\* longest Scinot text enumerated exhaustively over TextAlphabet
MaxText == 3

\* most digits before and after the point of a built literal
MaxWhole == 2
MaxFrac == 2

\* largest digits argument of round()
MaxRound == 3

\* largest exponent of an operand of Scinot arithmetic
MaxExponent == 3

\* ------------------------------------------------------------------------
\* Characters
\* ------------------------------------------------------------------------
Upper == {"C", "F", "H", "M", "N", "O", "P", "S"}
Lower == {"a", "e", "g", "l", "q", "s", "u"}
Digit == {"0", "1", "2", "3", "4", "5", "6", "7", "8", "9"}

isalpha(c) == c \in Upper \cup Lower
isupper(c) == c \in Upper
isdigit(c) == c \in Digit

DigitVal(c) ==
    CASE c = "0" -> 0 [] c = "1" -> 1 [] c = "2" -> 2 [] c = "3" -> 3
      [] c = "4" -> 4 [] c = "5" -> 5 [] c = "6" -> 6 [] c = "7" -> 7
      [] c = "8" -> 8 [] c = "9" -> 9

DigitChar(n) ==
    CASE n = 0 -> "0" [] n = 1 -> "1" [] n = 2 -> "2" [] n = 3 -> "3"
      [] n = 4 -> "4" [] n = 5 -> "5" [] n = 6 -> "6" [] n = 7 -> "7"
      [] n = 8 -> "8" [] n = 9 -> "9"

\* ------------------------------------------------------------------------
\* Sequence helpers (python list / str operations)
\* ------------------------------------------------------------------------
Last(s) == s[Len(s)]
ButLast(s) == SubSeq(s, 1, Len(s) - 1)

\* ''.join(ion)
RECURSIVE Join(_)
Join(ss) == IF ss = << >> THEN << >> ELSE Head(ss) \o Join(Tail(ss))

\* list.insert(i, x) for i >= 0: positions past the end append
Insert(s, i, x) ==
    IF i >= Len(s) THEN Append(s, x)
    ELSE SubSeq(s, 1, i) \o <<x>> \o SubSeq(s, i + 1, Len(s))

\* '/' in token
Contains(s, c) == \E i \in 1..Len(s) : s[i] = c

\* index of the first c in s at or after position i, Len(s)+1 when absent
RECURSIVE Find(_, _, _)
Find(s, c, i) ==
    IF i > Len(s) THEN Len(s) + 1
    ELSE IF s[i] = c THEN i ELSE Find(s, c, i + 1)

\* token.split('/')[0] and token.split('/')[1], for a token that contains '/'
SplitFirst(s) == SubSeq(s, 1, Find(s, "/", 1) - 1)
SplitSecond(s) ==
    LET i == Find(s, "/", 1)
        j == Find(s, "/", i + 1)
    IN  SubSeq(s, i + 1, j - 1)

\* int(digits)
RECURSIVE DigitsToInt(_)
DigitsToInt(s) ==
    IF s = << >> THEN 0 ELSE 10 * DigitsToInt(ButLast(s)) + DigitVal(Last(s))

\* str(n) for n >= 0
RECURSIVE IntToDigits(_)
IntToDigits(n) ==
    IF n < 10 THEN <<DigitChar(n)>>
    ELSE Append(IntToDigits(n \div 10), DigitChar(n % 10))

\* ------------------------------------------------------------------------
\* Count: an exact rational (fractions.Fraction), kept in lowest terms
\* ------------------------------------------------------------------------
RECURSIVE GCD(_, _)
GCD(a, b) == IF b = 0 THEN a ELSE GCD(b, a % b)

Fraction(n, d) ==
    LET g == GCD(n, d) IN IF g = 0 THEN [n |-> 0, d |-> 1] ELSE [n |-> n \div g, d |-> d \div g]

Count(n) == Fraction(n, 1)
CountAdd(a, b) == Fraction(a.n * b.d + b.n * a.d, a.d * b.d)
CountMul(a, b) == Fraction(a.n * b.n, a.d * b.d)
CountGt(a, k) == a.n > k * a.d

\* str(Count): str(Fraction) is 'n' when the denominator is 1, else 'n/d'
CountStr(a) ==
    IF a.d = 1 THEN IntToDigits(a.n)
    ELSE IntToDigits(a.n) \o <<"/">> \o IntToDigits(a.d)

\* ------------------------------------------------------------------------
\* Decimal arithmetic used for bracketed coefficients
\* ------------------------------------------------------------------------
\* Decimal(text) accepts a non-empty digit string here; '' raises
\* decimal.InvalidOperation
DecimalOk(s) == Len(s) > 0 /\ \A i \in 1..Len(s) : isdigit(s[i])

\* round(Decimal(a) / Decimal(b), 3) in thousandths: round-half-even
RoundThousandths(a, b) ==
    LET n == a * 1000
        q == n \div b
        r == n % b
    IN  IF 2 * r > b THEN q + 1
        ELSE IF 2 * r = b THEN q + (q % 2)
        ELSE q

\* str() of a Decimal with three decimal places, from its thousandths
ThousandthsStr(m) ==
    LET f == m % 1000
    IN  IntToDigits(m \div 1000) \o <<".">> \o
        <<DigitChar(f \div 100), DigitChar((f \div 10) % 10), DigitChar(f % 10)>>

\* Count(Decimal(text)) for the text of a COEFFICIENT or SUBSCRIPT token:
\* a digit string, or digits '.' digits
RECURSIVE Pow10(_)
Pow10(k) == IF k = 0 THEN 1 ELSE 10 * Pow10(k - 1)

CountOfText(s) ==
    LET i == Find(s, ".", 1)
        whole == SubSeq(s, 1, i - 1)
        frac == SubSeq(s, i + 1, Len(s))
    IN  Fraction(DigitsToInt(whole) * Pow10(Len(frac)) + DigitsToInt(frac),
                 Pow10(Len(frac)))

\* ------------------------------------------------------------------------
\* tokenizer.py
\* ------------------------------------------------------------------------
FormulaToken(type, value) == [type |-> type, value |-> value]

StateWords == {<<"s">>, <<"l">>, <<"g">>, <<"a", "q">>}

\* The tokenizer's locals are threaded through the state functions as one
\* record t: state, token, tokens, polyatomic, ion, start_pos, and error
\* ("" while no exception has been raised).
Raise(t, e) == [t EXCEPT !.error = e]

\* state_start with isalnum() in place of isalpha(): a digit opens a symbol
state_start_alnum(t, pos, char) ==
    IF char = "[" THEN
        [t EXCEPT !.token = << >>, !.state = "COEFFICIENT"]
    ELSE IF isalpha(char) \/ isdigit(char) THEN
        [t EXCEPT !.token = <<char>>, !.state = "SYMBOL"]
    ELSE IF char = "(" THEN
        [t EXCEPT !.token = << >>,
                  !.tokens = Append(@, FormulaToken("POLYATOMIC_START", <<"(">>)),
                  !.state = "START",
                  !.polyatomic = TRUE]
    ELSE Raise(t, "FormulaTokenizeError")

state_start(t, pos, char) ==
    IF char = "[" THEN
        [t EXCEPT !.token = << >>, !.state = "COEFFICIENT"]
    ELSE IF isalpha(char) THEN
        [t EXCEPT !.token = <<char>>, !.state = "SYMBOL"]
    ELSE IF char = "(" THEN
        [t EXCEPT !.token = << >>,
                  !.tokens = Append(@, FormulaToken("POLYATOMIC_START", <<"(">>)),
                  !.state = "START",
                  !.polyatomic = TRUE]
    ELSE Raise(t, "FormulaTokenizeError")

state_coefficient(t, pos, char) ==
    LET token1 == IF isdigit(char) \/ char = "/" THEN Append(t.token, char) ELSE t.token
    IN  IF char = "]" THEN
            IF Len(token1) = 0 THEN Raise(t, "FormulaTokenizeError")
            ELSE IF Contains(token1, "/") THEN
                LET n0 == SplitFirst(token1)
                    n1 == SplitSecond(token1)
                IN  IF ~DecimalOk(n0) \/ ~DecimalOk(n1) THEN Raise(t, "InvalidOperation")
                    ELSE IF DigitsToInt(n1) = 0 THEN
                        IF DigitsToInt(n0) = 0 THEN Raise(t, "InvalidOperation")
                        ELSE Raise(t, "DivisionByZero")
                    ELSE [t EXCEPT
                            !.tokens = Append(@, FormulaToken("COEFFICIENT",
                                ThousandthsStr(RoundThousandths(DigitsToInt(n0), DigitsToInt(n1))))),
                            !.token = << >>,
                            !.state = "EXPECT_SYMBOL"]
            ELSE [t EXCEPT !.tokens = Append(@, FormulaToken("COEFFICIENT", token1)),
                           !.token = << >>,
                           !.state = "EXPECT_SYMBOL"]
        ELSE [t EXCEPT !.token = token1, !.state = "COEFFICIENT"]

state_symbol(t, pos, char) ==
    IF isalpha(char) THEN
        IF isupper(char) THEN
            [t EXCEPT !.tokens = Append(@, FormulaToken("SYMBOL", t.token)),
                      !.ion = Append(@, t.token),
                      !.token = <<char>>,
                      !.start_pos = Append(@, pos - 1),
                      !.state = "SYMBOL"]
        ELSE [t EXCEPT !.token = Append(@, char), !.state = "SYMBOL"]
    ELSE IF isdigit(char) THEN
        [t EXCEPT !.tokens = Append(@, FormulaToken("SYMBOL", t.token)),
                  !.token = <<char>>,
                  !.state = "SUBSCRIPT"]
    ELSE IF char = "*" THEN
        [t EXCEPT !.tokens = @ \o <<FormulaToken("SYMBOL", t.token),
                                    FormulaToken("COMBINDED_WITH", <<"*">>)>>,
                  !.token = << >>,
                  !.state = "START"]
    ELSE IF char = "(" THEN
        [t EXCEPT !.tokens = @ \o <<FormulaToken("SYMBOL", t.token),
                                    FormulaToken("POLYATOMIC_START", <<"(">>)>>,
                  !.token = << >>,
                  !.polyatomic = TRUE,
                  !.state = "START"]
    ELSE IF char = ")" THEN
        IF t.polyatomic THEN
            [t EXCEPT !.tokens =
                          IF t.token \in StateWords
                          THEN ButLast(@) \o <<FormulaToken("STATE", t.token)>>
                          ELSE @ \o <<FormulaToken("SYMBOL", t.token),
                                      FormulaToken("POLYATOMIC_END", <<")">>)>>,
                      !.token = << >>,
                      !.polyatomic = FALSE,
                      !.state = "POLYATOMIC_END"]
        ELSE Raise(t, "FormulaTokenizeError")
    ELSE Raise(t, "FormulaTokenizeError")

state_expect_symbol(t, pos, char) ==
    IF isalpha(char) THEN [t EXCEPT !.token = <<char>>, !.state = "SYMBOL"]
    ELSE Raise(t, "FormulaTokenizeError")

\* ion.append(tokens[-1].value + token);
\* start_pos.append(pos - len(tokens[-1].value + token))
PushSubscript(t, pos) ==
    LET span == Last(t.tokens).value \o t.token
    IN  [t EXCEPT !.ion = Append(@, span),
                  !.start_pos = Append(@, pos - Len(span))]

state_subscript(t, pos, char) ==
    IF isdigit(char) THEN
        [t EXCEPT !.token = Append(@, char), !.state = "SUBSCRIPT"]
    ELSE IF isalpha(char) THEN
        [PushSubscript(t, pos) EXCEPT
            !.tokens = Append(@, FormulaToken("SUBSCRIPT", t.token)),
            !.token = <<char>>,
            !.state = "SYMBOL"]
    ELSE IF char = "*" THEN
        [PushSubscript(t, pos) EXCEPT
            !.tokens = @ \o <<FormulaToken("SUBSCRIPT", t.token),
                              FormulaToken("COMBINDED_WITH", <<"*">>)>>,
            !.token = << >>,
            !.state = "START"]
    ELSE IF char = "(" THEN
        [PushSubscript(t, pos) EXCEPT
            !.tokens = @ \o <<FormulaToken("SUBSCRIPT", t.token),
                              FormulaToken("POLYATOMIC_START", <<"(">>)>>,
            !.token = << >>,
            !.polyatomic = TRUE,
            !.state = "START"]
    ELSE IF char = ")" THEN
        IF t.polyatomic THEN
            [t EXCEPT !.tokens = @ \o <<FormulaToken("SUBSCRIPT", t.token),
                                        FormulaToken("POLYATOMIC_END", <<")">>)>>,
                      !.token = << >>,
                      !.polyatomic = FALSE,
                      !.state = "POLYATOMIC_END"]
        ELSE Raise(t, "FormulaTokenizeError")
    ELSE Raise(t, "FormulaTokenizeError")

state_polyatomic_end(t, pos, char) ==
    IF isalpha(char) THEN
        [t EXCEPT !.polyatomic = FALSE, !.token = <<char>>, !.state = "SYMBOL"]
    ELSE IF isdigit(char) THEN
        [t EXCEPT !.polyatomic = FALSE, !.token = <<char>>, !.state = "SUBSCRIPT"]
    ELSE IF char = "*" THEN
        [t EXCEPT !.polyatomic = FALSE,
                  !.tokens = Append(@, FormulaToken("COMBINDED_WITH", <<"*">>)),
                  !.token = << >>,
                  !.state = "START"]
    ELSE IF char = "(" THEN
        [t EXCEPT !.tokens = Append(@, FormulaToken("POLYATOMIC_START", <<"(">>)),
                  !.token = << >>,
                  !.polyatomic = TRUE,
                  !.state = "START"]
    ELSE Raise(t, "FormulaTokenizeError")

\* the window bookkeeping that closes each iteration of tokenize's loop:
\* the ion-table test is only printed there, nothing is inserted
LoopTail(t) ==
    LET t3 == IF Len(t.start_pos) = 3
              THEN [t EXCEPT !.start_pos = Tail(@), !.ion = Tail(@)]
              ELSE t
    IN  IF t3.polyatomic
        THEN [t3 EXCEPT !.start_pos = << >>, !.ion = << >>]
        ELSE t3

\* one iteration of the for loop of tokenize; pos is the 0-based index
LoopBody(t, pos, char) ==
    LET t1 == IF t.state = "START"
              THEN state_start([t EXCEPT !.start_pos = << >>, !.ion = << >>], pos, char)
              ELSE IF t.state = "COEFFICIENT" THEN state_coefficient(t, pos, char)
              ELSE IF t.state = "SYMBOL" THEN state_symbol(t, pos, char)
              ELSE IF t.state = "EXPECT_SYMBOL" THEN state_expect_symbol(t, pos, char)
              ELSE IF t.state = "SUBSCRIPT" THEN state_subscript(t, pos, char)
              ELSE state_polyatomic_end(t, pos, char)
    IN  IF t1.error # "" THEN t1 ELSE LoopTail(t1)

\* the two implicit-ion tests after the flush, against the ion table ions
InsertImplicit(t, ions) ==
    LET found3 == Len(t.start_pos) = 3 /\ Join(t.ion) \in ions
        t1 == IF Len(t.start_pos) = 3 THEN
                  IF found3 THEN
                      [t EXCEPT
                          !.tokens = Append(Insert(@, t.start_pos[1],
                                         FormulaToken("POLYATOMIC_START", <<"(">>)),
                                         FormulaToken("POLYATOMIC_END", <<")">>)),
                          !.ion = << >>,
                          !.start_pos = << >>]
                  ELSE [t EXCEPT !.ion = Tail(@), !.start_pos = Tail(@)]
              ELSE t
    IN  IF Len(t1.start_pos) = 2 /\ Join(t1.ion) \in ions THEN
            [t1 EXCEPT
                !.tokens = Append(Insert(@, t1.start_pos[1],
                               FormulaToken("POLYATOMIC_START", <<"(">>)),
                               FormulaToken("POLYATOMIC_END", <<")">>))]
        ELSE t1

\* the code of tokenize after its loop
EndOfInput(t, ions) ==
    IF Len(t.token) > 0 THEN
        IF t.state = "SUBSCRIPT" THEN
            InsertImplicit(
                [t EXCEPT !.ion = Append(@, Last(t.tokens).value \o t.token),
                          !.tokens = Append(@, FormulaToken("SUBSCRIPT", t.token)),
                          !.start_pos = Append(@, -1)], ions)
        ELSE IF t.state = "SYMBOL" THEN
            InsertImplicit(
                [t EXCEPT !.tokens = Append(@, FormulaToken("SYMBOL", t.token)),
                          !.ion = Append(@, t.token),
                          !.start_pos = Append(@, -1)], ions)
        ELSE Raise(t, "FormulaTokenizeError")
    ELSE InsertImplicit(t, ions)

TokenizerInit ==
    [state |-> "START", token |-> << >>, tokens |-> << >>, polyatomic |-> FALSE,
     ion |-> << >>, start_pos |-> << >>, error |-> ""]

\* tokenize(formula) as a function of the formula and the ion table
RECURSIVE ScanFrom(_, _, _)
ScanFrom(t, formula, i) ==
    IF i > Len(formula) \/ t.error # "" THEN t
    ELSE ScanFrom(LoopBody(t, i - 1, formula[i]), formula, i + 1)

tokenize(formula, ions) ==
    LET t == ScanFrom(TokenizerInit, formula, 1)
    IN  IF t.error # "" THEN t ELSE EndOfInput(t, ions)

\* ------------------------------------------------------------------------
\* parser.py: pass one
\* ------------------------------------------------------------------------
\* A nested token group (a python list inside the compound list) is the
\* record [type |-> "LIST", value |-> <<tokens>>].
TokenList(items) == [type |-> "LIST", value |-> items]

\* the body of the for loop of _parse_pass_one; p holds its locals
PassOneStep(p, token) ==
    LET p1 == IF token.type = "COMBINDED_WITH"
              THEN [p EXCEPT !.root = Append(@, p.compound), !.compound = << >>]
              ELSE p
    IN  IF token.type = "POLYATOMIC_START" THEN [p1 EXCEPT !.state = "POLYATOMIC"]
        ELSE IF token.type = "POLYATOMIC_END" THEN [p1 EXCEPT !.state = "POLYATOMIC_END"]
        ELSE IF token.type = "COEFFICIENT" THEN
            IF p1.state = "COMPOUND" THEN [p1 EXCEPT !.compound = Append(@, token)]
            ELSE IF p1.state = "POLYATOMIC" THEN [p1 EXCEPT !.polyatomic = Append(@, token)]
            ELSE [p1 EXCEPT !.compound = @ \o <<TokenList(p1.polyatomic), token>>,
                            !.polyatomic = << >>,
                            !.state = "COMPOUND"]
        ELSE IF token.type = "SUBSCRIPT" THEN
            IF p1.state = "COMPOUND" THEN [p1 EXCEPT !.compound = Append(@, token)]
            ELSE IF p1.state = "POLYATOMIC" THEN [p1 EXCEPT !.polyatomic = Append(@, token)]
            ELSE [p1 EXCEPT !.compound = Append(@, TokenList(<<token>> \o p1.polyatomic)),
                            !.polyatomic = << >>,
                            !.state = "COMPOUND"]
        ELSE IF token.type = "SYMBOL" THEN
            IF p1.state = "COMPOUND" THEN [p1 EXCEPT !.compound = Append(@, token)]
            ELSE IF p1.state = "POLYATOMIC" THEN [p1 EXCEPT !.polyatomic = Append(@, token)]
            ELSE [p1 EXCEPT !.compound = @ \o <<TokenList(p1.polyatomic), token>>,
                            !.polyatomic = << >>,
                            !.state = "COMPOUND"]
        ELSE IF token.type = "STATE" /\ p1.state = "COMPOUND" THEN
            [p1 EXCEPT !.compound = <<token>> \o @]
        ELSE p1

RECURSIVE PassOneFrom(_, _, _)
PassOneFrom(p, tokens, i) ==
    IF i > Len(tokens) THEN p
    ELSE PassOneFrom(PassOneStep(p, tokens[i]), tokens, i + 1)

_parse_pass_one(tokens) ==
    LET p == PassOneFrom([root |-> << >>, compound |-> << >>, polyatomic |-> << >>,
                          state |-> "COMPOUND"], tokens, 1)
        compound == IF p.polyatomic # << >>
                    THEN Append(p.compound, TokenList(p.polyatomic))
                    ELSE p.compound
    IN  Append(p.root, compound)

\* ------------------------------------------------------------------------
\* parser.py: pass two
\* ------------------------------------------------------------------------
\* FormulaNode / CompoundNode.  Only a COMPOUND carries a physical state;
\* the field is "UNDEFINED" on the other nodes to keep one record shape.
FormulaNode(count, symbol, type, children) ==
    [count |-> count, symbol |-> symbol, type |-> type, children |-> children,
     state |-> "UNDEFINED"]

CompoundNode(count, symbol, children, state) ==
    [count |-> count, symbol |-> symbol, type |-> "COMPOUND", children |-> children,
     state |-> state]

\* parser.state_start .. parser.state_subscript; q holds the locals of
\* _parse_pass_two: atoms, state, coefficient, symbol, compound,
\* compound_state, error
P2state_start(q, token, polyatomic) ==
    IF token.type = "COEFFICIENT" THEN
        [q EXCEPT !.coefficient = CountOfText(token.value), !.state = "COEFFICIENT"]
    ELSE IF token.type = "SYMBOL" THEN
        [q EXCEPT !.symbol = token.value, !.state = "SYMBOL"]
    ELSE IF token.type = "SUBSCRIPT" /\ polyatomic THEN
        [q EXCEPT !.coefficient = CountOfText(token.value), !.state = "COEFFICIENT"]
    ELSE IF token.type = "STATE" THEN
        [q EXCEPT !.compound_state =
                      IF token.value = <<"s">> THEN "SOLID"
                      ELSE IF token.value = <<"l">> THEN "LIQUID"
                      ELSE IF token.value = <<"g">> THEN "GAS"
                      ELSE IF token.value = <<"a", "q">> THEN "AQUEOUS"
                      ELSE @,
                  !.state = "START"]
    ELSE Raise(q, "FormulaParseError")

P2state_coefficient(q, token) ==
    IF token.type = "SYMBOL" THEN [q EXCEPT !.symbol = token.value, !.state = "SYMBOL"]
    ELSE Raise(q, "FormulaParseError")

P2state_symbol(q, token) ==
    IF token.type = "SYMBOL" THEN
        [q EXCEPT !.atoms = Append(@, FormulaNode(Count(1), q.symbol, "ATOM", << >>)),
                  !.compound = @ \o q.symbol,
                  !.symbol = token.value,
                  !.state = "SYMBOL"]
    ELSE IF token.type = "SUBSCRIPT" THEN
        [q EXCEPT !.atoms = Append(@, FormulaNode(CountOfText(token.value), q.symbol,
                                                   "ATOM", << >>)),
                  !.compound = @ \o q.symbol \o token.value,
                  !.symbol = << >>,
                  !.state = "SUBSCRIPT"]
    ELSE Raise(q, "FormulaParseError")

P2state_subscript(q, token) ==
    IF token.type = "SYMBOL" THEN [q EXCEPT !.symbol = token.value, !.state = "SYMBOL"]
    ELSE Raise(q, "FormulaParseError")

\* the text appended to compound for a polyatomic child
IonText(ion) ==
    IF CountGt(ion.count, 1)
    THEN <<"(">> \o ion.symbol \o <<")">> \o CountStr(ion.count)
    ELSE ion.symbol

\* a nested call that raised leaves a record with only the error set
RECURSIVE _parse_pass_two(_, _)
RECURSIVE PassTwoFrom(_, _, _, _)

\* the body of the for loop of _parse_pass_two
PassTwoStep(q, token, polyatomic) ==
    IF token.type = "LIST" THEN
        LET ion == _parse_pass_two(token.value, TRUE)
        IN  IF ion.error # "" THEN Raise(q, ion.error)
            ELSE IF q.state = "START" \/ q.state = "COEFFICIENT" THEN
                [q EXCEPT !.atoms = Append(@, ion.node)]
            ELSE IF q.state = "SYMBOL" THEN
                [q EXCEPT !.atoms = @ \o <<FormulaNode(Count(1), q.symbol, "ATOM", << >>),
                                           ion.node>>,
                          !.compound = @ \o q.symbol \o IonText(ion.node),
                          !.symbol = << >>]
            ELSE
                [q EXCEPT !.atoms = Append(@, ion.node),
                          !.compound = @ \o IonText(ion.node)]
    ELSE IF q.state = "START" THEN P2state_start(q, token, polyatomic)
    ELSE IF q.state = "COEFFICIENT" THEN P2state_coefficient(q, token)
    ELSE IF q.state = "SYMBOL" THEN P2state_symbol(q, token)
    ELSE P2state_subscript(q, token)

PassTwoFrom(q, tokens, i, polyatomic) ==
    IF i > Len(tokens) \/ q.error # "" THEN q
    ELSE PassTwoFrom(PassTwoStep(q, tokens[i], polyatomic), tokens, i + 1, polyatomic)

\* _parse_pass_two without the polyatomic test of its return statement: a
\* nested group comes back as a CompoundNode too
_parse_pass_two_compound(tokens, polyatomic) ==
    LET q == PassTwoFrom([atoms |-> << >>, state |-> "START", coefficient |-> Count(1),
                          symbol |-> << >>, compound |-> << >>,
                          compound_state |-> "UNDEFINED", error |-> ""],
                         tokens, 1, polyatomic)
        pending == Len(q.symbol) > 0 /\ q.state = "SYMBOL"
        compound == IF pending THEN q.compound \o q.symbol ELSE q.compound
        atoms == IF pending
                 THEN Append(q.atoms, FormulaNode(Count(1), q.symbol, "ATOM", << >>))
                 ELSE q.atoms
    IN  IF q.error # "" THEN [error |-> q.error, node |-> FormulaNode(Count(0), << >>, "", << >>)]
        ELSE [error |-> "", node |-> CompoundNode(q.coefficient, compound, atoms, q.compound_state)]

\* returns [error, node]
_parse_pass_two(tokens, polyatomic) ==
    LET q == PassTwoFrom([atoms |-> << >>, state |-> "START", coefficient |-> Count(1),
                          symbol |-> << >>, compound |-> << >>,
                          compound_state |-> "UNDEFINED", error |-> ""],
                         tokens, 1, polyatomic)
        pending == Len(q.symbol) > 0 /\ q.state = "SYMBOL"
        compound == IF pending THEN q.compound \o q.symbol ELSE q.compound
        atoms == IF pending
                 THEN Append(q.atoms, FormulaNode(Count(1), q.symbol, "ATOM", << >>))
                 ELSE q.atoms
    IN  IF q.error # "" THEN [error |-> q.error, node |-> FormulaNode(Count(0), << >>, "", << >>)]
        ELSE IF polyatomic
        THEN [error |-> "", node |-> FormulaNode(q.coefficient, compound, "POLYATOMIC_ION", atoms)]
        ELSE [error |-> "", node |-> CompoundNode(q.coefficient, compound, atoms, q.compound_state)]

\* children = [_parse_pass_two(compound) for compound in root]
RECURSIVE PassTwoAll(_, _)
PassTwoAll(root, i) ==
    IF i > Len(root) THEN [error |-> "", children |-> << >>]
    ELSE LET r == _parse_pass_two(root[i], FALSE)
             rest == PassTwoAll(root, i + 1)
         IN  IF r.error # "" THEN [error |-> r.error, children |-> << >>]
             ELSE IF rest.error # "" THEN rest
             ELSE [error |-> "", children |-> <<r.node>> \o rest.children]

\* ------------------------------------------------------------------------
\* parser.py: FormulaRoot.flatten
\* ------------------------------------------------------------------------
\* an (amount, symbol) tuple
AtomTuple(count, symbol) == [count |-> count, symbol |-> symbol]

RECURSIVE _flatten_compound(_, _)
_flatten_compound(count, compound) ==
    IF compound = << >> THEN << >>
    ELSE LET node == Head(compound)
             here == IF node.type = "ATOM"
                     THEN <<AtomTuple(CountMul(node.count, count), node.symbol)>>
                     ELSE _flatten_compound(node.count, node.children)
         IN  here \o _flatten_compound(count, Tail(compound))

RECURSIVE FlattenChildren(_)
FlattenChildren(children) ==
    IF children = << >> THEN << >>
    ELSE _flatten_compound(Head(children).count, Head(children).children)
         \o FlattenChildren(Tail(children))

\* atom_map: a dict in insertion order, as a sequence of AtomTuple
RECURSIVE AtomMapAdd(_, _)
\* the update of atom_map with "atom_sum = atom[0]" in place of "+=": a later
\* occurrence of a symbol replaces the amount stored for it
AtomMapAdd_assign(atom_map, atom) ==
    IF atom_map = << >> THEN <<AtomTuple(atom.count, atom.symbol)>>
    ELSE IF Head(atom_map).symbol = atom.symbol
    THEN <<AtomTuple(atom.count, atom.symbol)>> \o Tail(atom_map)
    ELSE <<Head(atom_map)>> \o AtomMapAdd(Tail(atom_map), atom)

AtomMapAdd(atom_map, atom) ==
    IF atom_map = << >> THEN <<AtomTuple(CountAdd(Count(0), atom.count), atom.symbol)>>
    ELSE IF Head(atom_map).symbol = atom.symbol
    THEN <<AtomTuple(CountAdd(Head(atom_map).count, atom.count), atom.symbol)>> \o Tail(atom_map)
    ELSE <<Head(atom_map)>> \o AtomMapAdd(Tail(atom_map), atom)

RECURSIVE AtomMapOf(_, _)
AtomMapOf(atom_map, atoms) ==
    IF atoms = << >> THEN atom_map
    ELSE AtomMapOf(AtomMapAdd(atom_map, Head(atoms)), Tail(atoms))

flatten(children) == AtomMapOf(<< >>, FlattenChildren(children))

\* parse_formula(formula) as a function: [error, children]
parse_formula(formula, ions) ==
    LET t == tokenize(formula, ions)
    IN  IF t.error # "" THEN [error |-> t.error, children |-> << >>]
        ELSE PassTwoAll(_parse_pass_one(t.tokens), 1)

\* ------------------------------------------------------------------------
\* Inputs
\* ------------------------------------------------------------------------
\* characters of the exhaustively enumerated formulas: two element letters,
\* a lower-case letter that is also a state word, digits, every punctuation
\* character the tokenizer knows, and one character it does not know
Alphabet == {"H", "O", "l", "2", "0", "(", ")", "*", "[", "]", "/", "#"}

ShortFormulas == UNION {[1..n -> Alphabet] : n \in 0..MaxLen}

\* formulas named in the documentation and tests of the parser
F_H2O == <<"H", "2", "O">>
F_MgOH2 == <<"M", "g", "(", "O", "H", ")", "2">>
F_Fe2SO43 == <<"F", "e", "2", "(", "S", "O", "4", ")", "3">>
F_CuSO4_5H2O == <<"C", "u", "S", "O", "4", "*", "5", "H", "2", "O">>
F_Na2CO3 == <<"N", "a", "2", "C", "O", "3">>
F_OpenOH == <<"(", "O", "H">>
F_2H == <<"2", "H">>
F_2MgOH2 == <<"[", "2", "]", "M", "g", "(", "O", "H", ")", "2">>
F_MgOHCl == <<"M", "g", "(", "O", "H", ")", "C", "l">>
F_NaH2PO4 == <<"N", "a", "H", "2", "P", "O", "4">>
F_HalfH2O == <<"[", "1", "/", "2", "]", "H", "2", "O">>
F_H2Ol == <<"H", "2", "O", "(", "l", ")">>
F_OHOH3 == <<"(", "O", "H", ")", "(", "O", "H", ")", "3">>
F_CuSO4_B5_H2O == <<"C", "u", "S", "O", "4", "*", "[", "5", "]", "H", "2", "O">>
\* groups inside groups, as the grammar's '(' part+ ')' allows
F_HO23 == <<"(", "H", "(", "O", ")", "2", ")", "3">>
F_MgOH23 == <<"M", "g", "(", "(", "O", "H", ")", "2", ")", "3">>
\* a state suffix behind a group, with and without a subscript
F_OHl == <<"(", "O", "H", ")", "(", "l", ")">>
F_MgOH2aq == <<"M", "g", "(", "O", "H", ")", "2", "(", "a", "q", ")">>
\* a group whose last symbol is spelled like a state word
F_H2l == <<"(", "H", "2", "l", ")">>

Examples ==
    {F_H2O, F_MgOH2, F_Fe2SO43, F_CuSO4_5H2O,
     F_Na2CO3, F_OpenOH, F_2H, F_2MgOH2,
     F_MgOHCl, F_NaH2PO4, F_HalfH2O, F_H2Ol,
     F_OHOH3, F_CuSO4_B5_H2O, F_HO23, F_MgOH23,
     F_OHl, F_MgOH2aq, F_H2l}

Formulas == ShortFormulas \cup Examples

\* contents of the ion lookup table (chemistry.periodictable.Ions)
I_CO3 == <<"C", "O", "3">>
I_SO4 == <<"S", "O", "4">>
I_OH == <<"O", "H">>
I_H2PO4 == <<"H", "2", "P", "O", "4">>

IonTables == {{}, {I_CO3, I_SO4, I_OH, I_H2PO4}}

\* ------------------------------------------------------------------------
\* Scinot: chemistry/scinotation.py.  A Scinot holds three strings,
\* _integral, _decimal and _exponent; they are sequences of characters here.
\* ------------------------------------------------------------------------
Zeros(k) == [i \in 1..k |-> "0"]

\* int(text) for '-'? digits, and str(n)
StrToInt(s) == IF s[1] = "-" THEN 0 - DigitsToInt(Tail(s)) ELSE DigitsToInt(s)
IntToStr(n) == IF n < 0 THEN <<"-">> \o IntToDigits(0 - n) ELSE IntToDigits(n)

\* last index of the run of digits that starts at i (i - 1 when v[i] is not
\* a digit): the greedy [0-9]{1,}
RECURSIVE DigitRun(_, _)
DigitRun(v, i) ==
    IF i > Len(v) \/ ~isdigit(v[i]) THEN i - 1 ELSE DigitRun(v, i + 1)

\* '-{0,1}[0-9]{1,}' matches at i
SignedDigitsAt(v, i) ==
    \/ isdigit(v[i])
    \/ v[i] = "-" /\ i < Len(v) /\ isdigit(v[i + 1])

\* the text '-{0,1}[0-9]{1,}' matches at i
SignedDigits(v, i) ==
    IF v[i] = "-" THEN SubSeq(v, i, DigitRun(v, i + 1))
    ELSE SubSeq(v, i, DigitRun(v, i))

\* number of '-' characters the text starts with
RECURSIVE LeadingMinus(_)
LeadingMinus(v) ==
    IF v = << >> \/ Head(v) # "-" THEN 0 ELSE 1 + LeadingMinus(Tail(v))

\* match('-{0,}[0-9]((\.[0-9]{1,}){0,1}x10\^|E-{0,1}[0-9]{1,}){0,1}', v):
\* match() anchors at the start only and the group after the first digit is
\* optional, so the text matches when it starts with any number of '-'
\* followed by one digit
match(v) ==
    LET k == LeadingMinus(v) IN k < Len(v) /\ isdigit(v[k + 1])

\* search('-{0,1}[0-9]{1,}', v)[0]: the leftmost match
search_integral(v) ==
    LET I == {i \in 1..Len(v) : SignedDigitsAt(v, i)}
        i == CHOOSE x \in I : \A y \in I : x <= y
    IN  SignedDigits(v, i)

\* search('(?<=\.)[0-9]{1,}', v): the digits after the first '.' that is
\* followed by a digit, '' when there is none
search_decimal(v) ==
    LET I == {i \in 2..Len(v) : v[i - 1] = "." /\ isdigit(v[i])}
    IN  IF I = {} THEN << >>
        ELSE LET i == CHOOSE x \in I : \A y \in I : x <= y
             IN  SubSeq(v, i, DigitRun(v, i))

\* search('(?<=[\^,E])-{0,1}[0-9]{1,}', v): the signed digits after the
\* first '^', ',' or 'E' that is followed by them, '0' when there is none
search_exponent(v) ==
    LET I == {i \in 2..Len(v) : v[i - 1] \in {"^", ",", "E"} /\ SignedDigitsAt(v, i)}
    IN  IF I = {} THEN <<"0">>
        ELSE LET i == CHOOSE x \in I : \A y \in I : x <= y
             IN  SignedDigits(v, i)

\* a Scinot, or the exception its construction raised
ScinotOf(integral, decimal, exponent) ==
    [error |-> "", integral |-> integral, decimal |-> decimal, exponent |-> exponent]
ScinotRaise(name) ==
    [error |-> name, integral |-> << >>, decimal |-> << >>, exponent |-> << >>]

\* while len(integral) > 1: the last character moves to the front of decimal
RECURSIVE ShiftIntegral(_)
ShiftIntegral(s) ==
    IF Len(s.integral) > 1
    THEN ShiftIntegral(ScinotOf(ButLast(s.integral),
                                <<Last(s.integral)>> \o s.decimal,
                                IntToStr(StrToInt(s.exponent) + 1)))
    ELSE s

\* while integral == '0' and len(decimal) > 0: the first decimal moves up
RECURSIVE ShiftDecimal(_)
ShiftDecimal(s) ==
    IF s.integral = <<"0">> /\ Len(s.decimal) > 0
    THEN ShiftDecimal(ScinotOf(<<Head(s.decimal)>>,
                               Tail(s.decimal),
                               IntToStr(StrToInt(s.exponent) - 1)))
    ELSE s

\* Scinot.parse(value) on the text str(value)
parse(value) ==
    IF ~match(value) THEN ScinotRaise("Exception")
    ELSE ShiftDecimal(ShiftIntegral(
             ScinotOf(search_integral(value), search_decimal(value), search_exponent(value))))

\* Scinot(value) for a text
Scinot(value) == parse(value)

\* Scinot.sig_digits()
sig_digits(s) ==
    IF s.decimal # << >> THEN Len(s.integral) + Len(s.decimal) ELSE 1

\* ------------------------------------------------------------------------
\* decimal.Decimal as Scinot uses it: a sign, the digits of the coefficient
\* (no leading zeros, '0' for zero) and an exponent, under the default
\* context (28 digits, ROUND_HALF_EVEN)
\* ------------------------------------------------------------------------
prec == 28

Dec(sign, int, exp) == [error |-> "", sign |-> sign, int |-> int, exp |-> exp]
DecRaise(name) == [error |-> name, sign |-> 0, int |-> <<"0">>, exp |-> 0]

RECURSIVE StripLeadingZeros(_)
StripLeadingZeros(s) ==
    IF Len(s) > 1 /\ Head(s) = "0" THEN StripLeadingZeros(Tail(s)) ELSE s

RECURSIVE TrailingZeros(_)
TrailingZeros(s) ==
    IF Len(s) > 1 /\ Last(s) = "0" THEN 1 + TrailingZeros(ButLast(s)) ELSE 0

IsZero(d) == d.int = <<"0">>

\* Decimal(text) for text '-'? digits* ('.' digits*)?, given as the part
\* before the point and the part after it
DecimalOfParts(whole, frac) ==
    LET neg == whole # << >> /\ Head(whole) = "-"
        digs == (IF neg THEN Tail(whole) ELSE whole) \o frac
    IN  Dec(IF neg THEN 1 ELSE 0, StripLeadingZeros(digs), 0 - Len(frac))

\* product of two coefficients, digit strings: the product of the parts
\* before their trailing zeros, followed by the zeros of both
BigMul(x, y) ==
    IF x = <<"0">> \/ y = <<"0">> THEN <<"0">>
    ELSE LET zx == TrailingZeros(x)
             zy == TrailingZeros(y)
         IN  IntToDigits(DigitsToInt(SubSeq(x, 1, Len(x) - zx))
                         * DigitsToInt(SubSeq(y, 1, Len(y) - zy)))
             \o Zeros(zx + zy)

\* Decimal.__mul__
DecMul(a, b) == Dec((a.sign + b.sign) % 2, BigMul(a.int, b.int), a.exp + b.exp)

\* Decimal.__add__: both coefficients at the smaller exponent
DecAdd(a, b) ==
    LET exp == IF a.exp < b.exp THEN a.exp ELSE b.exp
        mag(d) == DigitsToInt(d.int) * Pow10(d.exp - exp)
        val(d) == IF d.sign = 1 THEN 0 - mag(d) ELSE mag(d)
        total == val(a) + val(b)
        sign == IF IsZero(a) /\ IsZero(b)
                THEN (IF a.sign < b.sign THEN a.sign ELSE b.sign)
                ELSE IF total < 0 THEN 1 ELSE 0
    IN  Dec(sign, IntToDigits(IF total < 0 THEN 0 - total ELSE total), exp)

\* Decimal.__sub__: the sum with the operand negated
DecSub(a, b) == DecAdd(a, Dec(1 - b.sign, b.int, b.exp))

\* divmod(int(digits), m) by long division: the quotient's digits and the
\* remainder
RECURSIVE LongDiv(_, _, _, _)
LongDiv(digits, m, quot, rem) ==
    IF digits = << >> THEN [quot |-> StripLeadingZeros(quot), rem |-> rem]
    ELSE LET cur == rem * 10 + DigitVal(Head(digits))
         IN  LongDiv(Tail(digits), m, Append(quot, DigitChar(cur \div m)), cur % m)

\* str(int(digits) + 1)
RECURSIVE BigInc(_)
BigInc(s) ==
    IF s = << >> THEN <<"1">>
    ELSE IF Last(s) = "9" THEN Append(BigInc(ButLast(s)), "0")
    ELSE Append(ButLast(s), DigitChar(DigitVal(Last(s)) + 1))

\* while exp < ideal_exp and coeff % 10 == 0: coeff //= 10; exp += 1
RECURSIVE StripToIdeal(_, _, _)
StripToIdeal(coeff, exp, ideal) ==
    IF exp < ideal /\ Len(coeff) > 1 /\ Last(coeff) = "0"
    THEN StripToIdeal(ButLast(coeff), exp + 1, ideal)
    ELSE [coeff |-> coeff, exp |-> exp]

\* Decimal._fix: a coefficient of more than prec digits is rounded half-even
\* to prec digits
DecFix(sign, coeff, exp) ==
    IF Len(coeff) <= prec THEN Dec(sign, coeff, exp)
    ELSE LET kept == SubSeq(coeff, 1, prec)
             rest == SubSeq(coeff, prec + 1, Len(coeff))
             half == Head(rest) = "5" /\ \A i \in 2..Len(rest) : rest[i] = "0"
             up == IF half THEN DigitVal(Last(kept)) % 2 = 1
                   ELSE DigitVal(Head(rest)) >= 5
             more == IF up THEN BigInc(kept) ELSE kept
             exp_min == Len(coeff) + exp - prec
         IN  IF Len(more) > prec THEN Dec(sign, ButLast(more), exp_min + 1)
             ELSE Dec(sign, more, exp_min)

\* Decimal.__truediv__
DecDiv(a, b) ==
    LET sign == (a.sign + b.sign) % 2
    IN  IF IsZero(b)
        THEN (IF IsZero(a) THEN DecRaise("InvalidOperation") ELSE DecRaise("DivisionByZero"))
        ELSE IF IsZero(a) THEN Dec(sign, <<"0">>, a.exp - b.exp)
        ELSE LET shift == Len(b.int) - Len(a.int) + prec + 1
                 d == LongDiv(a.int \o Zeros(shift), DigitsToInt(b.int), << >>, 0)
                 exact == StripToIdeal(d.quot, a.exp - b.exp - shift, a.exp - b.exp)
                 coeff == IF d.rem # 0
                          THEN (IF Last(d.quot) \in {"0", "5"} THEN BigInc(d.quot) ELSE d.quot)
                          ELSE exact.coeff
                 exp == IF d.rem # 0 THEN a.exp - b.exp - shift ELSE exact.exp
             IN  DecFix(sign, coeff, exp)

\* str(Decimal): plain notation when the exponent is at most 0 and the
\* number has fewer than six zeros after the point before its first digit,
\* else one digit before the point and 'E' with a signed exponent
DecimalStr(d) ==
    LET leftdigits == d.exp + Len(d.int)
        dotplace == IF d.exp <= 0 /\ leftdigits > -6 THEN leftdigits ELSE 1
        intpart == IF dotplace <= 0 THEN <<"0">>
                   ELSE IF dotplace >= Len(d.int) THEN d.int \o Zeros(dotplace - Len(d.int))
                   ELSE SubSeq(d.int, 1, dotplace)
        fracpart == IF dotplace <= 0 THEN <<".">> \o Zeros(0 - dotplace) \o d.int
                    ELSE IF dotplace >= Len(d.int) THEN << >>
                    ELSE <<".">> \o SubSeq(d.int, dotplace + 1, Len(d.int))
        e == leftdigits - dotplace
        exptext == IF e = 0 THEN << >>
                   ELSE <<"E", IF e < 0 THEN "-" ELSE "+">> \o IntToDigits(IF e < 0 THEN 0 - e ELSE e)
    IN  (IF d.sign = 1 THEN <<"-">> ELSE << >>) \o intpart \o fracpart \o exptext

\* Decimal(10 ** n) for n >= 0: the integer power
DecimalPow10(n) == Dec(0, <<"1">> \o Zeros(n), 0)

\* Decimal(numerator / denominator): the float quotient converted exactly.
\* For a denominator 2^k (k <= 2) the float is exact and the Decimal is
\* numerator * 5^k with exponent -k
DecimalOfFloat(c) ==
    IF c.d = 1 THEN Dec(0, IntToDigits(c.n), 0)
    ELSE IF c.d = 2 THEN Dec(0, IntToDigits(c.n * 5), -1)
    ELSE Dec(0, IntToDigits(c.n * 25), -2)

\* ------------------------------------------------------------------------
\* Scinot methods
\* ------------------------------------------------------------------------
\* Scinot.decimal(): Decimal(integral[.decimal]) * Decimal(10 ** exponent).
\* For a negative exponent 10 ** exponent is a binary float; only the
\* integer powers are modelled (ExactPower guards every use)
ExactPower(s) == StrToInt(s.exponent) >= 0

decimal(s) ==
    LET _decver == IF s.decimal # << >> THEN DecimalOfParts(s.integral, s.decimal)
                   ELSE DecimalOfParts(s.integral, << >>)
    IN  DecMul(_decver, DecimalPow10(StrToInt(s.exponent)))

\* Scinot(value) for a Decimal: parse(str(value))
ScinotOfDecimal(d) == IF d.error # "" THEN ScinotRaise(d.error) ELSE Scinot(DecimalStr(d))

x10 == <<"x", "1", "0", "^">>

\* the loop of _round_last that drops trailing 9s of _number into _trail
RECURSIVE DropNines(_, _)
DropNines(_number, _trail) ==
    IF Last(_number) = "9" /\ Len(_number) > 1
    THEN DropNines(ButLast(_number), <<"0">> \o _trail)
    ELSE [number |-> _number, trail |-> _trail]

\* Scinot._round_last(value)
_round_last(value) ==
    IF value.error # "" THEN value
    ELSE
      LET digs == value.integral \o value.decimal
          _exponent == StrToInt(value.exponent)
          _last == Last(digs)
          _number == ButLast(digs)
      IN  IF ~isdigit(_last) THEN ScinotRaise("ValueError")
          ELSE IF DigitVal(_last) >= 5
          THEN IF _number = << >> THEN ScinotRaise("IndexError")
               ELSE LET d == DropNines(_number, << >>)
                    IN  IF ~isdigit(Last(d.number)) THEN ScinotRaise("ValueError")
                        ELSE
                        LET _next_last == DigitVal(Last(d.number)) + 1
                            _trail == IF _next_last = 10
                                      THEN (IF Len(d.trail) > 0 THEN ButLast(d.trail) ELSE << >>)
                                      ELSE d.trail
                            exp2 == IF _next_last = 10 THEN _exponent + 1 ELSE _exponent
                            num2 == ButLast(d.number) \o IntToDigits(_next_last) \o _trail
                        IN  Scinot(<<num2[1], ".">> \o Tail(num2) \o x10 \o IntToStr(exp2))
          ELSE IF _number = << >> THEN ScinotRaise("IndexError")
          ELSE Scinot(<<_number[1], ".">> \o Tail(_number) \o x10 \o IntToStr(_exponent))

\* Scinot.__round__(digits)
__round__(s, digits) ==
    LET all == s.integral \o s.decimal
        cut == SubSeq(all, 1, IF digits + 1 < Len(all) THEN digits + 1 ELSE Len(all))
        _len == Len(cut)
        padded == IF _len < digits THEN cut \o Zeros(digits - _len) ELSE cut
        _svalue == IF Len(padded) > 1 THEN <<padded[1], ".">> \o Tail(padded)
                   ELSE <<padded[1]>>
        text == _svalue \o x10 \o s.exponent
    IN  IF _len <= digits THEN Scinot(text) ELSE _round_last(Scinot(text))

\* round(Scinot(d), digits) for a Decimal d
RoundDecimal(d, digits) ==
    LET s == ScinotOfDecimal(d) IN IF s.error # "" THEN s ELSE __round__(s, digits)

Min(a, b) == IF a < b THEN a ELSE b

\* the operand of an arithmetic method: a Scinot or a Count
ScinotOperand(s) == [type |-> "Scinot", value |-> s]
CountOperand(c) == [type |-> "Count", value |-> c]

\* Scinot.__mul__(other)
__mul__(s, other) ==
    LET multiplicand == decimal(s)
        multiplier == IF other.type = "Scinot" THEN decimal(other.value)
                      ELSE DecimalOfFloat(other.value)
        digits == IF other.type = "Scinot"
                  THEN Min(sig_digits(s), sig_digits(other.value))
                  ELSE sig_digits(s)
    IN  RoundDecimal(DecMul(multiplicand, multiplier), digits)

\* Scinot.__truediv__(other): Decimal(other) raises TypeError for a Count
__truediv__(s, other) ==
    IF other.type # "Scinot" THEN ScinotRaise("TypeError")
    ELSE RoundDecimal(DecDiv(decimal(s), decimal(other.value)),
                      Min(sig_digits(s), sig_digits(other.value)))

\* Scinot._eq_integer(value) for value = 0, which is what __eq__(0) calls
_eq_integer(s, value) ==
    /\ s.integral = IntToStr(value)
    /\ s.exponent = <<"0">>
    /\ \A i \in 1..Len(s.decimal) : s.decimal[i] = "0"

\* Scinot.__add__(other): min() of an empty list raises ValueError
__add__(s, other) ==
    LET total == ScinotOfDecimal(DecAdd(decimal(s), decimal(other)))
        non_zero == {sig_digits(v) : v \in {w \in {s, other} : ~_eq_integer(w, 0)}}
    IN  IF total.error # "" THEN total
        ELSE IF non_zero = {} THEN ScinotRaise("ValueError")
        ELSE __round__(total, CHOOSE m \in non_zero : \A k \in non_zero : m <= k)

\* Scinot.__sub__(other)
__sub__(s, other) ==
    LET total == ScinotOfDecimal(DecSub(decimal(s), decimal(other)))
    IN  IF total.error # "" THEN total
        ELSE __round__(total, Min(sig_digits(s), sig_digits(other)))

\* ------------------------------------------------------------------------
\* The pipeline as a state machine: one parse_formula call followed by
\* flatten() on its result
\* ------------------------------------------------------------------------
VARIABLES formula, ions, pc, pos, state, token, tokens, polyatomic, ion,
          start_pos, error, root, children, atom_map,
          sci_pc, value, scinot, op, other, result

vars == <<formula, ions, pc, pos, state, token, tokens, polyatomic, ion,
          start_pos, error, root, children, atom_map,
          sci_pc, value, scinot, op, other, result>>

\* the tokenizer's locals as the record its state functions work on
Locals ==
    [state |-> state, token |-> token, tokens |-> tokens, polyatomic |-> polyatomic,
     ion |-> ion, start_pos |-> start_pos, error |-> error]

SetLocals(t) ==
    /\ state' = t.state
    /\ token' = t.token
    /\ tokens' = t.tokens
    /\ polyatomic' = t.polyatomic
    /\ ion' = t.ion
    /\ start_pos' = t.start_pos
    /\ error' = t.error

Init ==
    /\ formula \in Formulas
    /\ ions \in IonTables
    /\ pc = "tokenize"
    /\ pos = 0
    /\ state = "START"
    /\ token = << >>
    /\ tokens = << >>
    /\ polyatomic = FALSE
    /\ ion = << >>
    /\ start_pos = << >>
    /\ error = ""
    /\ root = << >>
    /\ children = << >>
    /\ atom_map = << >>
    /\ sci_pc = "idle"
    /\ value = << >>
    /\ scinot = ScinotRaise("None")
    /\ op = ""
    /\ other = [type |-> "None", value |-> 0]
    /\ result = ScinotRaise("None")

\* one iteration of the loop over the characters of the formula
TokenizeChar ==
    /\ pc = "tokenize"
    /\ pos < Len(formula)
    /\ LET t == LoopBody(Locals, pos, formula[pos + 1])
       IN  /\ SetLocals(t)
           /\ pc' = IF t.error # "" THEN "raised" ELSE "tokenize"
    /\ pos' = pos + 1
    /\ UNCHANGED <<formula, ions, root, children, atom_map>>
    /\ UNCHANGED <<sci_pc, value, scinot, op, other, result>>

\* end of input: flush, implicit-ion insertion, return of the token list
TokenizeReturn ==
    /\ pc = "tokenize"
    /\ pos = Len(formula)
    /\ LET t == EndOfInput(Locals, ions)
       IN  /\ SetLocals(t)
           /\ pc' = IF t.error # "" THEN "raised" ELSE "pass_one"
    /\ UNCHANGED <<formula, ions, pos, root, children, atom_map>>
    /\ UNCHANGED <<sci_pc, value, scinot, op, other, result>>

PassOne ==
    /\ pc = "pass_one"
    /\ root' = _parse_pass_one(tokens)
    /\ pc' = "pass_two"
    /\ UNCHANGED <<formula, ions, pos, state, token, tokens, polyatomic, ion,
                   start_pos, error, children, atom_map>>
    /\ UNCHANGED <<sci_pc, value, scinot, op, other, result>>

\* pass two over every compound group; parse_formula returns the root
PassTwo ==
    /\ pc = "pass_two"
    /\ LET r == PassTwoAll(root, 1)
       IN  /\ children' = r.children
           /\ error' = r.error
           /\ pc' = IF r.error # "" THEN "raised" ELSE "parsed"
    /\ UNCHANGED <<formula, ions, pos, state, token, tokens, polyatomic, ion,
                   start_pos, root, atom_map>>
    /\ UNCHANGED <<sci_pc, value, scinot, op, other, result>>

\* FormulaRoot.flatten() on the returned root
Flatten ==
    /\ pc = "parsed"
    /\ atom_map' = flatten(children)
    /\ pc' = "flattened"
    /\ UNCHANGED <<formula, ions, pos, state, token, tokens, polyatomic, ion,
                   start_pos, error, root, children>>
    /\ UNCHANGED <<sci_pc, value, scinot, op, other, result>>

Next == TokenizeChar \/ TokenizeReturn \/ PassOne \/ PassTwo \/ Flatten

Spec == Init /\ [][Next]_vars

\* ------------------------------------------------------------------------
\* Scinot as a state machine: one Scinot(value) construction followed by
\* one operation on the constructed object
\* ------------------------------------------------------------------------
\* texts enumerated exhaustively: digits, the sign, the point, the exponent
\* letter of a raw decimal's text, '+', and a letter no literal contains
TextAlphabet == {"0", "1", "5", ".", "-", "E", "+", "a"}
ShortTexts == UNION {[1..n -> TextAlphabet] : n \in 0..MaxText}

\* literals built from a sign, a mantissa and an exponent suffix
LiteralDigits == {"0", "5", "9"}
DigitTexts(k) == UNION {[1..n -> LiteralDigits] : n \in 1..k}
Mantissas ==
    DigitTexts(MaxWhole)
      \cup {w \o <<".">> \o f : w \in DigitTexts(MaxWhole), f \in DigitTexts(MaxFrac)}
Suffixes ==
    {<< >>, x10 \o <<"1">>, x10 \o <<"2">>, x10 \o <<"-", "1">>, x10,
     <<"E", "1">>, <<"E", "+", "1">>, <<"E", "-", "2">>}
Signs == {<< >>, <<"-">>}
BuiltTexts == {s \o m \o e : s \in Signs, m \in Mantissas, e \in Suffixes}

\* literals named in the documentation
T_125e2 == <<"1", ".", "2", "5">> \o x10 \o <<"2">>
T_20e1 == <<"2", ".", "0">> \o x10 \o <<"1">>
T_999e0 == <<"9", ".", "9", "9">> \o x10 \o <<"0">>

Literals == ShortTexts \cup BuiltTexts \cup {T_125e2, T_20e1, T_999e0}

\* the other operand of an arithmetic method
OperandTexts ==
    {<<"0">>, <<"3">>, <<"5">>, <<"7">>, <<"1", ".", "0">>, <<"1", ".", "9">>,
     <<"2", ".", "0">>, <<"9", ".", "5">>, <<"-", "5">>, <<"1">> \o x10 \o <<"2">>,
     T_125e2, T_20e1}
Operands ==
    {ScinotOperand(Scinot(t)) : t \in OperandTexts}
      \cup {CountOperand(c) : c \in {Count(0), Count(2), Count(19), Fraction(1, 2)}}

\* the operations keep to operands whose Decimal the model computes: an
\* exponent in 0..MaxExponent and at most MaxWhole + MaxFrac + 1 characters
InRange(s) ==
    /\ StrToInt(s.exponent) \in 0..MaxExponent
    /\ Len(s.integral) + Len(s.decimal) <= MaxWhole + MaxFrac + 1

NoScinot == ScinotRaise("None")
NoOperand == [type |-> "None", value |-> 0]

\* no parse_formula call is in progress
FormulaIdle ==
    /\ formula = << >>
    /\ ions = {}
    /\ pc = "idle"
    /\ pos = 0
    /\ state = "START"
    /\ token = << >>
    /\ tokens = << >>
    /\ polyatomic = FALSE
    /\ ion = << >>
    /\ start_pos = << >>
    /\ error = ""
    /\ root = << >>
    /\ children = << >>
    /\ atom_map = << >>

fvars == <<formula, ions, pc, pos, state, token, tokens, polyatomic, ion,
           start_pos, error, root, children, atom_map>>

InitScinot ==
    /\ FormulaIdle
    /\ sci_pc = "new"
    /\ value \in Literals
    /\ scinot = NoScinot
    /\ op = ""
    /\ other = NoOperand
    /\ result = NoScinot

\* Scinot.__init__(value) for a text
ScinotNew ==
    /\ sci_pc = "new"
    /\ scinot' = Scinot(value)
    /\ sci_pc' = IF scinot'.error # "" THEN "raised" ELSE "constructed"
    /\ UNCHANGED <<value, op, other, result>>
    /\ UNCHANGED fvars

\* the return, or the exception, of a method called on the object
Return(name, operand, r) ==
    /\ op' = name
    /\ other' = operand
    /\ result' = r
    /\ sci_pc' = IF r.error # "" THEN "raised" ELSE "returned"
    /\ UNCHANGED <<value, scinot>>
    /\ UNCHANGED fvars

\* round(scinot, digits)
Round ==
    /\ sci_pc = "constructed"
    /\ \E digits \in 1..MaxRound :
         Return("__round__", [type |-> "int", value |-> digits], __round__(scinot, digits))

Usable(o) == o.type = "Scinot" => (o.value.error = "" /\ InRange(o.value))

\* scinot * other
Mul ==
    /\ sci_pc = "constructed"
    /\ InRange(scinot)
    /\ \E o \in Operands : Usable(o) /\ Return("__mul__", o, __mul__(scinot, o))

\* scinot / other
TrueDiv ==
    /\ sci_pc = "constructed"
    /\ InRange(scinot)
    /\ \E o \in Operands : Usable(o) /\ Return("__truediv__", o, __truediv__(scinot, o))

\* scinot + other
Add ==
    /\ sci_pc = "constructed"
    /\ InRange(scinot)
    /\ \E o \in Operands :
         /\ o.type = "Scinot" /\ Usable(o)
         /\ Return("__add__", o, __add__(scinot, o.value))

\* scinot - other
Sub ==
    /\ sci_pc = "constructed"
    /\ InRange(scinot)
    /\ \E o \in Operands :
         /\ o.type = "Scinot" /\ Usable(o)
         /\ Return("__sub__", o, __sub__(scinot, o.value))

NextScinot == ScinotNew \/ Round \/ Mul \/ TrueDiv \/ Add \/ Sub

SpecScinot == InitScinot /\ [][NextScinot]_vars

\* ------------------------------------------------------------------------
\* _parse_pass_one called on a token list of its own
\* ------------------------------------------------------------------------
MaxTokens == 3

\* one token of every type the loop of pass one distinguishes
TokenAlphabet ==
    {FormulaToken("SYMBOL", <<"H">>), FormulaToken("SYMBOL", <<"O">>),
     FormulaToken("SUBSCRIPT", <<"2">>), FormulaToken("COEFFICIENT", <<"2">>),
     FormulaToken("POLYATOMIC_START", <<"(">>), FormulaToken("POLYATOMIC_END", <<")">>),
     FormulaToken("COMBINDED_WITH", <<"*">>), FormulaToken("STATE", <<"l">>)}

TokenStreams == UNION {[1..n -> TokenAlphabet] : n \in 0..MaxTokens}

\* the caller hands a token list to _parse_pass_one, then a compound group
\* after the other to _parse_pass_two, and flattens the tree
InitPassOne ==
    /\ formula = << >>
    /\ ions = {}
    /\ pc = "pass_one"
    /\ pos = 0
    /\ state = "START"
    /\ token = << >>
    /\ tokens \in TokenStreams
    /\ polyatomic = FALSE
    /\ ion = << >>
    /\ start_pos = << >>
    /\ error = ""
    /\ root = << >>
    /\ children = << >>
    /\ atom_map = << >>
    /\ sci_pc = "idle"
    /\ value = << >>
    /\ scinot = NoScinot
    /\ op = ""
    /\ other = NoOperand
    /\ result = NoScinot

NextPassOne == PassOne \/ PassTwo \/ Flatten

SpecPassOne == InitPassOne /\ [][NextPassOne]_vars


\* ------------------------------------------------------------------------
\* Reference notions used to state the properties
\* ------------------------------------------------------------------------
\* the formula grammar of the documentation, read character by character:
\*   formula := compound ('*' compound)*      compound := part+ state?
\*   part := ('[' ratio ']')? (symbol subscript? | '(' part+ ')' subscript?)
\*   state := '(' ('s'|'l'|'g'|'aq') ')'      symbol := UPPER LOWER*
\*   subscript := DIGIT+                      ratio := DIGIT+ ('/' DIGIT+)?
\* mode is what has just been read, depth the number of open groups, and
\* maxd the deepest nesting allowed.
RECURSIVE GrammarFrom(_, _, _, _, _)
GrammarFrom(f, i, mode, depth, maxd) ==
    IF i > Len(f) THEN mode \in {"sym", "sub", "close", "state"} /\ depth = 0
    ELSE
      LET c == f[i]
          go(m, d) == GrammarFrom(f, i + 1, m, d, maxd)
          afterPart ==
              IF isupper(c) THEN go("sym", depth)
              ELSE IF c = "[" THEN go("coef0", depth)
              ELSE IF c = "(" THEN go("paren", depth)
              ELSE IF c = ")" THEN depth > 0 /\ go("close", depth - 1)
              ELSE IF c = "*" THEN depth = 0 /\ go("need", 0)
              ELSE FALSE
      IN  CASE mode = "need" ->
                 IF isupper(c) THEN go("sym", depth)
                 ELSE IF c = "[" THEN go("coef0", depth)
                 ELSE IF c = "(" THEN depth < maxd /\ go("need", depth + 1)
                 ELSE FALSE
            [] mode = "body" ->
                 IF isupper(c) THEN go("sym", depth)
                 ELSE IF c = "(" THEN depth < maxd /\ go("need", depth + 1)
                 ELSE FALSE
            [] mode = "coef0" -> isdigit(c) /\ go("coef", depth)
            [] mode = "coef" ->
                 IF isdigit(c) THEN go("coef", depth)
                 ELSE IF c = "/" THEN go("den0", depth)
                 ELSE IF c = "]" THEN go("body", depth)
                 ELSE FALSE
            [] mode = "den0" -> isdigit(c) /\ go("den", depth)
            [] mode = "den" ->
                 IF isdigit(c) THEN go("den", depth)
                 ELSE IF c = "]" THEN go("body", depth)
                 ELSE FALSE
            [] mode = "sym" ->
                 IF c \in Lower THEN go("sym", depth)
                 ELSE IF isdigit(c) THEN go("sub", depth)
                 ELSE afterPart
            [] mode = "sub" ->
                 IF isdigit(c) THEN go("sub", depth) ELSE afterPart
            [] mode = "close" ->
                 IF isdigit(c) THEN go("sub", depth) ELSE afterPart
            [] mode = "paren" ->
                 IF isupper(c) THEN depth < maxd /\ go("sym", depth + 1)
                 ELSE IF c = "[" THEN depth < maxd /\ go("coef0", depth + 1)
                 ELSE IF c = "(" THEN depth + 1 < maxd /\ go("need", depth + 2)
                 ELSE IF c \in {"s", "l", "g"} THEN depth = 0 /\ go("word", 0)
                 ELSE IF c = "a" THEN depth = 0 /\ go("worda", 0)
                 ELSE FALSE
            [] mode = "worda" -> c = "q" /\ go("word", 0)
            [] mode = "word" -> c = ")" /\ go("state", 0)
            [] mode = "state" -> c = "*" /\ go("need", 0)

\* deepest group nesting considered when the grammar is applied in full
MaxDepth == 3

InGrammar(f) == GrammarFrom(f, 1, "need", 0, MaxDepth)

\* a single compound of symbols, subscripts and one level of parenthesized
\* groups: no coefficient, no '*', no state suffix
PlainCompound(f) ==
    /\ \A i \in 1..Len(f) : f[i] \in Upper \cup Lower \cup Digit \cup {"(", ")"}
    /\ \A i \in 1..(Len(f) - 1) : f[i] = "(" => f[i + 1] \notin Lower
    /\ GrammarFrom(f, 1, "need", 0, 1)

\* last index of the run of characters of set S that starts at i (i - 1
\* when f[i] is not in S)
RECURSIVE RunEnd(_, _, _)
RunEnd(f, i, S) ==
    IF i > Len(f) \/ f[i] \notin S THEN i - 1 ELSE RunEnd(f, i + 1, S)

\* the element symbol written at i, and the subscript written after index j
\* (1 when none is written)
SymbolAt(f, i) == SubSeq(f, i, RunEnd(f, i + 1, Lower))
SubscriptAfter(f, j) ==
    LET k == RunEnd(f, j + 1, Digit)
    IN  IF k > j THEN DigitsToInt(SubSeq(f, j + 1, k)) ELSE 1

\* the subscript of the group that encloses index i (1 when there is none)
EnclosingSubscript(f, i) ==
    LET opens == {j \in 1..(i - 1) : f[j] = "(" /\ \A k \in j..i : f[k] # ")"}
    IN  IF opens = {} THEN 1
        ELSE SubscriptAfter(f, Find(f, ")", i))

RECURSIVE SumOver(_, _, _)
SumOver(f, I, sym) ==
    IF I = {} THEN 0
    ELSE LET i == CHOOSE x \in I : TRUE
             mine == IF SymbolAt(f, i) = sym
                     THEN SubscriptAfter(f, RunEnd(f, i + 1, Lower)) * EnclosingSubscript(f, i)
                     ELSE 0
         IN  mine + SumOver(f, I \ {i}, sym)

\* what is written in a plain compound: its symbols and their totals
WrittenSymbols(f) == {SymbolAt(f, i) : i \in {j \in 1..Len(f) : isupper(f[j])}}
WrittenTotal(f, sym) == SumOver(f, {j \in 1..Len(f) : isupper(f[j])}, sym)

\* a flatten() result read as a mapping
MapSymbols(m) == {m[i].symbol : i \in 1..Len(m)}
RECURSIVE MapTotal(_, _)
MapTotal(m, sym) ==
    IF m = << >> THEN Count(0)
    ELSE IF Head(m).symbol = sym THEN CountAdd(Head(m).count, MapTotal(Tail(m), sym))
    ELSE MapTotal(Tail(m), sym)

SameTotals(m1, m2) ==
    /\ MapSymbols(m1) = MapSymbols(m2)
    /\ \A sym \in MapSymbols(m1) : MapTotal(m1, sym) = MapTotal(m2, sym)

\* the ATOM leaves of a tree, each with its count times the multiplicity of
\* every enclosing node
RECURSIVE LeafProducts(_, _)
LeafProducts(nodes, mult) ==
    IF nodes = << >> THEN << >>
    ELSE LET node == Head(nodes)
             here == IF node.type = "ATOM"
                     THEN <<AtomTuple(CountMul(node.count, mult), node.symbol)>>
                     ELSE LeafProducts(node.children, CountMul(mult, node.count))
         IN  here \o LeafProducts(Tail(nodes), mult)

\* every node of a tree
RECURSIVE AllNodes(_)
AllNodes(nodes) ==
    IF nodes = << >> THEN {}
    ELSE {Head(nodes)} \cup AllNodes(Head(nodes).children) \cup AllNodes(Tail(nodes))

\* ------------------------------------------------------------------------
\* Properties
\* ------------------------------------------------------------------------
Returned == pc \in {"pass_one", "pass_two", "parsed", "flattened"}

\* C1: flatten() reports for every element the sum, over the ATOM leaves
\* with that symbol, of the leaf count times the multiplicity of every
\* enclosing node (polyatomic ion and compound).
C1_FlattenMultipliesEveryLevel ==
    pc = "flattened" => SameTotals(atom_map, LeafProducts(children, Count(1)))

\* the token stream of the formula with nothing inserted
PlainTokens == tokenize(formula, {}).tokens

NoParens == \A i \in 1..Len(formula) : formula[i] \notin {"(", ")"}

\* indices of the SYMBOL tokens of the last compound of toks; each starts one
\* symbol/subscript entry of the lookback window
LastEntries(toks) ==
    {i \in 1..Len(toks) :
        /\ toks[i].type = "SYMBOL"
        /\ \A j \in i..Len(toks) : toks[j].type # "COMBINDED_WITH"}

\* index of the token that starts the k-th entry from the end
EntryFromEnd(toks, k) ==
    CHOOSE i \in LastEntries(toks) : Cardinality({j \in LastEntries(toks) : j > i}) = k - 1

\* the text of the tokens from index i to the end
TextFrom(toks, i) == Join([j \in 1..(Len(toks) - i + 1) |-> toks[i + j - 1].value])

\* first token of the trailing window that names an ion, 0 when none does
WindowStart(toks, table) ==
    LET n == Cardinality(LastEntries(toks))
    IN  IF n >= 3 /\ TextFrom(toks, EntryFromEnd(toks, 3)) \in table
        THEN EntryFromEnd(toks, 3)
        ELSE IF n >= 2 /\ TextFrom(toks, EntryFromEnd(toks, 2)) \in table
        THEN EntryFromEnd(toks, 2)
        ELSE 0

Bracketed(toks, table) ==
    LET w == WindowStart(toks, table)
    IN  IF w = 0 THEN toks
        ELSE SubSeq(toks, 1, w - 1) \o <<FormulaToken("POLYATOMIC_START", <<"(">>)>>
             \o SubSeq(toks, w, Len(toks)) \o <<FormulaToken("POLYATOMIC_END", <<")">>)>>

\* C2: for a formula without parentheses, the returned token stream has
\* POLYATOMIC_START right before the first token of the trailing 2- or
\* 3-entry window that names an ion and POLYATOMIC_END after its last token,
\* and no POLYATOMIC token when no window names an ion.
C2_ImplicitIonBracketsWindow ==
    (pc = "pass_one" /\ NoParens) => tokens = Bracketed(PlainTokens, ions)

\* formula = X '*' digits Y with X and Y plain compounds
StarAt == Find(formula, "*", 1)
BareMultiplier ==
    /\ StarAt < Len(formula)
    /\ isdigit(formula[StarAt + 1])
    /\ PlainCompound(SubSeq(formula, 1, StarAt - 1))
    /\ PlainCompound(SubSeq(formula, RunEnd(formula, StarAt + 1, Digit) + 1, Len(formula)))

BareLeft == SubSeq(formula, 1, StarAt - 1)
BareRight == SubSeq(formula, RunEnd(formula, StarAt + 1, Digit) + 1, Len(formula))

\* C3 (as stated): a formula whose second compound has a bare leading
\* multiplier is parsed, and flatten returns the sum over both sides with
\* the multiplier distributed over the second side.
C3_BareMultiplierParsed ==
    BareMultiplier =>
        /\ pc # "raised"
        /\ pc = "flattened" =>
            /\ MapSymbols(atom_map) = WrittenSymbols(BareLeft) \cup WrittenSymbols(BareRight)
            /\ \A sym \in MapSymbols(atom_map) :
                   MapTotal(atom_map, sym) =
                       Count(WrittenTotal(BareLeft, sym)
                             + SubscriptAfter(formula, StarAt) * WrittenTotal(BareRight, sym))

HydrateTotals ==
    <<AtomTuple(Count(1), <<"C", "u">>), AtomTuple(Count(1), <<"S">>),
      AtomTuple(Count(9), <<"O">>), AtomTuple(Count(10), <<"H">>)>>

\* C3 (amended): a bare multiplier after '*' is rejected with
\* FormulaTokenizeError at the digit; with the multiplier written as a
\* bracketed coefficient, CuSO4*[5]H2O, the formula is parsed and flatten
\* gives Cu 1, S 1, O 9, H 10.
C3_BareMultiplierRejected ==
    /\ BareMultiplier =>
        /\ pc \in {"tokenize", "raised"}
        /\ pc = "raised" => (error = "FormulaTokenizeError" /\ pos = StarAt + 1)
    /\ formula = F_CuSO4_B5_H2O =>
        /\ pc # "raised"
        /\ pc = "flattened" => SameTotals(atom_map, HydrateTotals)

C3_Witness ==
    /\ formula = F_CuSO4_5H2O
    /\ BareMultiplier
    /\ pc = "raised"
    /\ Last(tokens).type = "COMBINDED_WITH"

\* C4: for a plain compound (symbols, subscripts, parenthesized groups with
\* an optional subscript) flatten returns exactly the written elements, each
\* with the sum over its occurrences of subscript times group subscript;
\* stated here for the parses in which no implicit ion was bracketed.
C4_PlainCompoundTotals ==
    PlainCompound(formula) =>
        /\ pc # "raised"
        /\ (pc = "flattened" /\ tokens = PlainTokens) =>
            /\ MapSymbols(atom_map) = WrittenSymbols(formula)
            /\ \A sym \in WrittenSymbols(formula) :
                   MapTotal(atom_map, sym) = Count(WrittenTotal(formula, sym))

\* C5: for an accepted single-compound formula without implicit ions,
\* parsing the canonical symbol string of the COMPOUND node gives a tree
\* with the same flattened atom counts.
C5_CanonicalRoundTrip ==
    (pc = "flattened" /\ InGrammar(formula) /\ Len(children) = 1 /\ tokens = PlainTokens) =>
        LET again == parse_formula(children[1].symbol, ions)
        IN  /\ again.error = ""
            /\ SameTotals(flatten(again.children), atom_map)

\* an explicit group is open at the end of the formula
OpenGroup ==
    /\ \A i \in 1..Len(formula) : formula[i] # "["
    /\ \E i \in 1..Len(formula) :
           formula[i] = "(" /\ \A j \in i..Len(formula) : formula[j] # ")"

\* C6: tokenize raises FormulaTokenizeError when a '(' group is still open
\* at the end of the input; no token stream is returned.
C6_UnclosedGroupRaises ==
    OpenGroup =>
        /\ ~Returned
        /\ pc = "raised" => error = "FormulaTokenizeError"

KnownChars == Upper \cup Lower \cup Digit \cup {"[", "]", "(", ")", "*", "/"}

\* C7: a character that is not a letter, a digit, a bracket, a parenthesis,
\* '*' or '/' raises FormulaTokenizeError in whatever state it arrives; it
\* is never skipped.
C7_UnknownCharRaises ==
    [][(pc = "tokenize" /\ pos < Len(formula) /\ formula[pos + 1] \notin KnownChars)
         => (pc' = "raised" /\ error' = "FormulaTokenizeError")]_vars

NotPolyatomic(tok) == tok.type \notin {"POLYATOMIC_START", "POLYATOMIC_END"}

\* C8: at end of input an open SYMBOL or SUBSCRIPT is flushed as the final
\* token; ending inside '[', directly after ']' or directly after '*'
\* raises FormulaTokenizeError.
C8_EndOfInput ==
    [][(pc = "tokenize" /\ pos = Len(formula)) =>
        /\ state \in {"SYMBOL", "SUBSCRIPT"} =>
            /\ error' = ""
            /\ SelectSeq(tokens', NotPolyatomic)
                 = Append(SelectSeq(tokens, NotPolyatomic), FormulaToken(state, token))
        /\ (\/ state \in {"COEFFICIENT", "EXPECT_SYMBOL"}
            \/ (state = "START" /\ tokens # << >> /\ Last(tokens).type = "COMBINDED_WITH"))
           => (pc' = "raised" /\ error' = "FormulaTokenizeError")]_vars

\* C9: parse_formula returns or raises FormulaTokenizeError or
\* FormulaParseError; no other exception type escapes.
C9_OnlyFormulaErrors ==
    error \in {"", "FormulaTokenizeError", "FormulaParseError"}

\* C10: for an accepted formula of the grammar every node multiplicity and
\* every count returned by flatten is strictly positive.
C10_PositiveCounts ==
    (InGrammar(formula) /\ pc = "flattened") =>
        /\ \A node \in AllNodes(children) : node.count.n > 0
        /\ \A i \in 1..Len(atom_map) : atom_map[i].count.n > 0

\* number of groups open after index i of f
Depth(f, i) ==
    Cardinality({j \in 1..i : f[j] = "("}) - Cardinality({j \in 1..i : f[j] = ")"})

\* index of the ')' that closes the '(' written at j
MatchClose(f, j) ==
    CHOOSE k \in (j + 1)..Len(f) :
        /\ Depth(f, k) = Depth(f, j) - 1
        /\ \A m \in (j + 1)..(k - 1) : Depth(f, m) >= Depth(f, j)

RECURSIVE ProductOver(_, _)
ProductOver(f, J) ==
    IF J = {} THEN 1
    ELSE LET j == CHOOSE x \in J : TRUE
         IN  SubscriptAfter(f, MatchClose(f, j)) * ProductOver(f, J \ {j})

\* product of the subscripts of all groups that enclose index i
EnclosingProduct(f, i) ==
    ProductOver(f, {j \in 1..(i - 1) : f[j] = "(" /\ MatchClose(f, j) > i})

RECURSIVE NestedSum(_, _, _)
NestedSum(f, I, sym) ==
    IF I = {} THEN 0
    ELSE LET i == CHOOSE x \in I : TRUE
             mine == IF SymbolAt(f, i) = sym
                     THEN SubscriptAfter(f, RunEnd(f, i + 1, Lower)) * EnclosingProduct(f, i)
                     ELSE 0
         IN  mine + NestedSum(f, I \ {i}, sym)

\* a single in-grammar compound of symbols, subscripts and groups in which
\* some group is written inside another one
NestedCompound(f) ==
    /\ \A i \in 1..Len(f) : f[i] \in Upper \cup Lower \cup Digit \cup {"(", ")"}
    /\ \A i \in 1..(Len(f) - 1) : f[i] = "(" => f[i + 1] \notin Lower
    /\ InGrammar(f)
    /\ \E i \in 1..Len(f) : Depth(f, i) >= 2

\* START and END tokens pair up like the parentheses of the formula
ProperlyNested(toks) ==
    LET open(i) == Cardinality({j \in 1..i : toks[j].type = "POLYATOMIC_START"})
        close(i) == Cardinality({j \in 1..i : toks[j].type = "POLYATOMIC_END"})
    IN  /\ \A i \in 1..Len(toks) : open(i) >= close(i)
        /\ open(Len(toks)) = close(Len(toks))

\* C11: a compound whose groups nest inside groups is accepted; its token
\* stream carries properly nested START/END pairs, one pair per written group,
\* and flatten() reports for each symbol its subscript times the subscripts
\* of all groups that enclose it.
C11_NestedGroupsAccepted ==
    NestedCompound(formula) =>
        /\ pc # "raised"
        /\ Returned =>
              /\ ProperlyNested(tokens)
              /\ Cardinality({i \in 1..Len(tokens) : tokens[i].type = "POLYATOMIC_START"})
                   = Cardinality({i \in 1..Len(formula) : formula[i] = "("})
        /\ pc = "flattened" =>
              /\ MapSymbols(atom_map) = WrittenSymbols(formula)
              /\ \A sym \in WrittenSymbols(formula) :
                    MapTotal(atom_map, sym)
                      = Count(NestedSum(formula, {j \in 1..Len(formula) : isupper(formula[j])}, sym))

\* C20: a digit read in the START state (first character of the input, of a
\* compound after '*', or of a group after '(') makes tokenize raise
\* FormulaTokenizeError at that character; no token list is returned.
C20_DigitInStartRaises ==
    [][(/\ pc = "tokenize"
        /\ state = "START"
        /\ pos < Len(formula)
        /\ isdigit(formula[pos + 1]))
       => (pc' = "raised" /\ error' = "FormulaTokenizeError")]_vars

\* a digit right after '*' or '(' has been rejected
C20_Witness ==
    /\ pc = "raised"
    /\ error = "FormulaTokenizeError"
    /\ state = "START"
    /\ pos >= 2
    /\ isdigit(formula[pos])
    /\ formula[pos - 1] \in {"*", "("}

\* ------------------------------------------------------------------------
\* Reference notions for Scinot: literals and exact numeric values
\* ------------------------------------------------------------------------
\* a well-formed literal:  '-'? DIGIT+ ('.' DIGIT+)? exponent?  with
\* exponent := 'x10^' '-'? DIGIT+  |  'E' ('-' | '+')? DIGIT+
LitWholeStart(t) == IF t # << >> /\ t[1] = "-" THEN 2 ELSE 1
LitWholeEnd(t) == DigitRun(t, LitWholeStart(t))
LitHasFrac(t) ==
    LET w == LitWholeEnd(t)
    IN  w + 2 <= Len(t) /\ t[w + 1] = "." /\ isdigit(t[w + 2])
LitFracEnd(t) == IF LitHasFrac(t) THEN DigitRun(t, LitWholeEnd(t) + 2) ELSE LitWholeEnd(t)
LitWhole(t) == SubSeq(t, LitWholeStart(t), LitWholeEnd(t))
LitFrac(t) == SubSeq(t, LitWholeEnd(t) + 2, LitFracEnd(t))
LitRest(t) == SubSeq(t, LitFracEnd(t) + 1, Len(t))
\* the signed digits of an exponent part, << >> when r is not one
LitExpDigits(r) ==
    LET body == IF Len(r) >= 4 /\ SubSeq(r, 1, 4) = x10 THEN SubSeq(r, 5, Len(r))
                ELSE IF r # << >> /\ r[1] = "E" THEN Tail(r)
                ELSE << >>
        plus == body # << >> /\ body[1] = "+" /\ r[1] = "E"
        signed == IF plus THEN Tail(body) ELSE body
        digs == IF signed # << >> /\ signed[1] = "-" THEN Tail(signed) ELSE signed
    IN  IF digs # << >> /\ \A i \in 1..Len(digs) : isdigit(digs[i]) THEN signed ELSE << >>

WellFormed(t) ==
    /\ LitWholeEnd(t) >= LitWholeStart(t)
    /\ LitRest(t) # << >> => LitExpDigits(LitRest(t)) # << >>

\* an exact number: (-1)^neg * m * 10^e, with m not a multiple of ten
\* (zero is 0 * 10^0)
RECURSIVE Num(_, _, _)
Num(neg, m, e) ==
    IF m = 0 THEN [neg |-> FALSE, m |-> 0, e |-> 0]
    ELSE IF m % 10 = 0 THEN Num(neg, m \div 10, e + 1)
    ELSE [neg |-> neg, m |-> m, e |-> e]

\* the number a well-formed literal denotes
LiteralValue(t) ==
    LET r == LitRest(t)
    IN  Num(t[1] = "-", DigitsToInt(LitWhole(t) \o LitFrac(t)),
            (IF r = << >> THEN 0 ELSE StrToInt(LitExpDigits(r))) - Len(LitFrac(t)))

\* the number the fields of a Scinot denote: integral.decimal * 10^exponent
FieldValue(s) ==
    LET neg == s.integral # << >> /\ s.integral[1] = "-"
        digs == (IF neg THEN Tail(s.integral) ELSE s.integral) \o s.decimal
    IN  Num(neg, DigitsToInt(digs), StrToInt(s.exponent) - Len(s.decimal))

NumAdd(a, b) ==
    LET e == Min(a.e, b.e)
        val(x) == (IF x.neg THEN -1 ELSE 1) * x.m * Pow10(x.e - e)
        total == val(a) + val(b)
    IN  Num(total < 0, IF total < 0 THEN 0 - total ELSE total, e)

NumNeg(a) == Num(~a.neg, a.m, a.e)

\* a rounded half-up (on its magnitude) to k significant digits
HalfUp(a, k) ==
    LET digs == IntToDigits(a.m)
    IN  IF Len(digs) <= k THEN a
        ELSE Num(a.neg,
                 DigitsToInt(SubSeq(digs, 1, k)) + (IF DigitVal(digs[k + 1]) >= 5 THEN 1 ELSE 0),
                 a.e + Len(digs) - k)

\* a Scinot of the documented shape: one leading digit, non-zero unless the
\* value is zero
Normalized(s) ==
    /\ s.error = ""
    /\ Len(s.integral) = 1
    /\ isdigit(s.integral[1])
    /\ s.integral = <<"0">> => \A i \in 1..Len(s.decimal) : s.decimal[i] = "0"

Called(name) == sci_pc \in {"returned", "raised"} /\ op = name
WithScinot == other.type = "Scinot"

\* C12: the product and the quotient (divisor not zero) of two Scinot values
\* are returned as Scinot values with min(a.sig_digits(), b.sig_digits())
\* significant digits, also when rounding carries out of the leading digit;
\* 1.25x10^2 * 2.0x10^1 is 2.5x10^3.
C12_ProductQuotientSigDigits ==
    (/\ Called("__mul__") \/ Called("__truediv__")
     /\ WithScinot
     /\ WellFormed(value) /\ Normalized(scinot) /\ Normalized(other.value)
     /\ op = "__truediv__" => FieldValue(other.value).m # 0)
    => /\ result.error = ""
       /\ sig_digits(result) = Min(sig_digits(scinot), sig_digits(other.value))
       /\ (op = "__mul__" /\ value = T_125e2 /\ other.value = Scinot(T_20e1))
            => result = ScinotOf(<<"2">>, <<"5">>, <<"3">>)

\* the digits of the receiver of round() when it is not negative
RoundDigits == scinot.integral \o scinot.decimal

\* C13: round(value, digits) returns the value rounded half-up at the digit
\* after the cutoff; a carry past the leading digit leaves the leading digit
\* 1 and the exponent one larger; 9.99x10^0 rounded to 2 digits is 1.0x10^1.
C13_RoundHalfUp ==
    (Called("__round__") /\ WellFormed(value)) =>
        /\ result.error = ""
        /\ FieldValue(result) = HalfUp(FieldValue(scinot), other.value)
        /\ (/\ Len(RoundDigits) > other.value
            /\ \A i \in 1..other.value : RoundDigits[i] = "9"
            /\ DigitVal(RoundDigits[other.value + 1]) >= 5)
             => /\ result.integral = <<"1">>
                /\ StrToInt(result.exponent) = StrToInt(scinot.exponent) + 1
        /\ (value = T_999e0 /\ other.value = 2)
             => result = ScinotOf(<<"1">>, <<"0">>, <<"1">>)

\* C14: the fields of a Scinot constructed from a well-formed literal (plain
\* decimal, x10^n form, or E-notation with E-n, En or E+n) denote the number
\* the literal denotes.
C14_ConstructPreservesValue ==
    (sci_pc # "new" /\ WellFormed(value)) =>
        /\ scinot.error = ""
        /\ FieldValue(scinot) = LiteralValue(value)

\* C15: a - b is the exact difference rounded to min(a.sig_digits(),
\* b.sig_digits()) significant digits, also when the difference is negative.
C15_DifferenceRounded ==
    (/\ Called("__sub__")
     /\ WellFormed(value) /\ Normalized(scinot) /\ Normalized(other.value))
    => /\ result.error = ""
       /\ FieldValue(result)
            = HalfUp(NumAdd(FieldValue(scinot), NumNeg(FieldValue(other.value))),
                     Min(sig_digits(scinot), sig_digits(other.value)))

\* C16: a + b is the exact sum rounded to min(a.sig_digits(),
\* b.sig_digits()) significant digits, also when one or both operands are
\* zero.
C16_SumRounded ==
    (/\ Called("__add__")
     /\ WellFormed(value) /\ Normalized(scinot) /\ Normalized(other.value))
    => /\ result.error = ""
       /\ FieldValue(result)
            = HalfUp(NumAdd(FieldValue(scinot), FieldValue(other.value)),
                     Min(sig_digits(scinot), sig_digits(other.value)))

\* C17: multiplying or dividing a Scinot by a Count (not zero as a divisor)
\* returns a Scinot with the receiver's number of significant digits.
C17_CountKeepsSigDigits ==
    (/\ Called("__mul__") \/ Called("__truediv__")
     /\ other.type = "Count"
     /\ WellFormed(value) /\ Normalized(scinot)
     /\ op = "__truediv__" => other.value.n # 0)
    => /\ result.error = ""
       /\ sig_digits(result) = sig_digits(scinot)

\* the documented shape of a Scinot and of its significant-digit count
Shaped(s) ==
    /\ Normalized(s)
    /\ sig_digits(s) = IF s.decimal = << >> THEN 1 ELSE 1 + Len(s.decimal)

\* C18: every Scinot constructed from a well-formed literal (positive, zero
\* or negative) or returned by an operation has one digit as its integral
\* field, 0 only for the value zero, and 1 + len(decimal) significant digits
\* (1 when decimal is empty).
C18_SingleLeadingDigit ==
    WellFormed(value) =>
        /\ sci_pc \in {"constructed", "returned"} => Shaped(scinot)
        /\ sci_pc = "returned" => Shaped(result)

\* C19: Scinot(text) raises for every text that is not a well-formed
\* literal, also when the text starts with a number and continues with
\* other characters.
C19_MalformedRaises ==
    (sci_pc # "new" /\ ~WellFormed(value)) => scinot.error = "Exception"

\* ------------------------------------------------------------------------
\* Properties of the parse passes
\* ------------------------------------------------------------------------
\* number of ATOM nodes in a list of trees
RECURSIVE AtomCount(_)
AtomCount(nodes) ==
    IF nodes = << >> THEN 0
    ELSE (IF Head(nodes).type = "ATOM" THEN 1 ELSE 0)
         + AtomCount(Head(nodes).children) + AtomCount(Tail(nodes))

\* number of tokens of one type in a token stream
TypeCount(toks, type) == Cardinality({i \in 1..Len(toks) : toks[i].type = type})

\* C21: in every tree built by pass two, every ATOM node has a non-empty
\* element symbol and there are as many ATOM nodes as SYMBOL tokens: a symbol
\* or a group closes the previous symbol only when one is pending.
C21_AtomPerSymbolToken ==
    pc \in {"parsed", "flattened"} =>
        /\ \A n \in AllNodes(children) : n.type = "ATOM" => n.symbol # << >>
        /\ AtomCount(children) = TypeCount(tokens, "SYMBOL")

\* the nested groups of the output of pass one, in order
RECURSIVE GroupsOf(_)
GroupsOf(compound) ==
    IF compound = << >> THEN << >>
    ELSE (IF Head(compound).type = "LIST" THEN <<Head(compound).value>> ELSE << >>)
         \o GroupsOf(Tail(compound))

RECURSIVE Groups(_)
Groups(r) == IF r = << >> THEN << >> ELSE GroupsOf(Head(r)) \o Groups(Tail(r))

\* every START is closed by an END before the next START
FlatPairs(toks) ==
    /\ ProperlyNested(toks)
    /\ \A i \in 1..Len(toks) :
          TypeCount(SubSeq(toks, 1, i), "POLYATOMIC_START")
              - TypeCount(SubSeq(toks, 1, i), "POLYATOMIC_END") <= 1

\* index of the first END token at or after i
NextEnd(toks, i) ==
    CHOOSE j \in i..Len(toks) :
        /\ toks[j].type = "POLYATOMIC_END"
        /\ \A k \in i..(j - 1) : toks[k].type # "POLYATOMIC_END"

\* the START ... END spans of a token stream from index i on, each with the
\* subscript that directly follows its END put in front
RECURSIVE Spans(_, _)
Spans(toks, i) ==
    IF i > Len(toks) THEN << >>
    ELSE IF toks[i].type # "POLYATOMIC_START" THEN Spans(toks, i + 1)
    ELSE LET j == NextEnd(toks, i)
             sub == IF j < Len(toks) /\ toks[j + 1].type = "SUBSCRIPT"
                    THEN <<toks[j + 1]>> ELSE << >>
         IN  <<sub \o SubSeq(toks, i + 1, j - 1)>> \o Spans(toks, j + 1)

\* C22: pass one turns each START ... END span into one nested group: the
\* output has as many nested groups as the input has START/END pairs and each
\* group holds the tokens of its own span, behind the subscript that follows
\* its END; adjacent spans included.
C22_OneGroupPerSpan ==
    (pc = "pass_two" /\ FlatPairs(tokens)) =>
        /\ Len(Groups(root)) = TypeCount(tokens, "POLYATOMIC_START")
        /\ Groups(root) = Spans(tokens, 1)

\* position i of f lies between '[' and the ']' that closes it
InBrackets(f, i) ==
    \E j \in 1..(i - 1) : f[j] = "[" /\ \A k \in j..(i - 1) : f[k] # "]"

\* the '*' characters that separate compounds, and the last position of each
\* compound
Stars(f) == {i \in 1..Len(f) : f[i] = "*" /\ ~InBrackets(f, i)}
CompoundEnds(f) == {i - 1 : i \in Stars(f)} \cup {Len(f)}
CompoundIndex(f, e) == Cardinality({i \in Stars(f) : i < e}) + 1

\* the compound that ends at e ends with '(' w ')'
HasSuffix(f, e, w) ==
    /\ e - Len(w) - 1 >= 1
    /\ ~InBrackets(f, e)
    /\ f[e] = ")"
    /\ SubSeq(f, e - Len(w), e - 1) = w
    /\ f[e - Len(w) - 1] = "("

\* f without the suffix '(' w ')' that ends at e
WithoutSuffix(f, e, w) == SubSeq(f, 1, e - Len(w) - 2) \o SubSeq(f, e + 1, Len(f))

StateTag(w) ==
    IF w = <<"s">> THEN "SOLID"
    ELSE IF w = <<"l">> THEN "LIQUID"
    ELSE IF w = <<"g">> THEN "GAS"
    ELSE "AQUEOUS"

\* C23: when a compound of an accepted formula ends with (s), (l), (g) or
\* (aq), its COMPOUND node carries the matching state and the suffix adds no
\* child: the compound's children are those of the formula written without
\* the suffix, whatever precedes the suffix.
C23_StateSuffixSetsTag ==
    (pc \in {"parsed", "flattened"} /\ tokens = PlainTokens) =>
        \A e \in CompoundEnds(formula) : \A w \in StateWords :
            HasSuffix(formula, e, w) =>
                LET k == CompoundIndex(formula, e)
                    bare == parse_formula(WithoutSuffix(formula, e, w), {})
                IN  /\ k <= Len(children)
                    /\ children[k].state = StateTag(w)
                    /\ bare.error = ""
                    /\ k <= Len(bare.children)
                    /\ children[k].children = bare.children[k].children

\* the tokens of one compound group of pass one, nested groups opened up
RECURSIVE Expand(_)
Expand(compound) ==
    IF compound = << >> THEN << >>
    ELSE (IF Head(compound).type = "LIST" THEN Head(compound).value
          ELSE <<Head(compound)>>)
         \o Expand(Tail(compound))

\* the tokens between the (k-1)-th and the k-th COMBINDED_WITH token
RECURSIVE TokenSpan(_, _)
TokenSpan(toks, k) ==
    LET star == CHOOSE i \in 1..(Len(toks) + 1) :
                    /\ i <= Len(toks) => toks[i].type = "COMBINDED_WITH"
                    /\ \A j \in 1..(i - 1) : toks[j].type # "COMBINDED_WITH"
    IN  IF k = 1 THEN SubSeq(toks, 1, star - 1)
        ELSE TokenSpan(SubSeq(toks, star + 1, Len(toks)), k - 1)

\* how often a token occurs in a sequence
Occurrences(toks, tok) == Cardinality({i \in 1..Len(toks) : toks[i] = tok})

\* the symbols, subscripts and coefficients of two sequences agree as bags
SameParts(a, b) ==
    \A tok \in {a[i] : i \in 1..Len(a)} \cup {b[i] : i \in 1..Len(b)} :
        tok.type \in {"SYMBOL", "SUBSCRIPT", "COEFFICIENT"} =>
            Occurrences(a, tok) = Occurrences(b, tok)

\* C24: pass one returns one compound group per '*'-separated span of the
\* token stream, in order, and every symbol, subscript and coefficient is in
\* the group of the span it was written in, alone or inside a nested group.
C24_TokensStayInTheirCompound ==
    pc = "pass_two" =>
        /\ Len(root) = TypeCount(tokens, "COMBINDED_WITH") + 1
        /\ \A k \in 1..Len(root) : SameParts(Expand(root[k]), TokenSpan(tokens, k))

\* the text of compound number k of f
CompoundText(f, k) ==
    LET e == CHOOSE x \in CompoundEnds(f) : CompoundIndex(f, x) = k
        s == IF k = 1 THEN 1
             ELSE 2 + (CHOOSE x \in CompoundEnds(f) : CompoundIndex(f, x) = k - 1)
    IN  SubSeq(f, s, e)

\* C25: the implicit-ion test acts during scanning: in the token stream of a
\* formula without parentheses, every compound that is followed by '*' has
\* the tokens it has when it is tokenized as a whole formula, START/END
\* around its trailing ion included.
C25_ImplicitIonInEveryCompound ==
    (pc = "pass_one" /\ NoParens) =>
        \A k \in 1..Cardinality(Stars(formula)) :
            TokenSpan(tokens, k) = tokenize(CompoundText(formula, k), ions).tokens

\* C26: implicit bracketing leaves the atom totals alone: for an accepted
\* formula without parentheses, flatten() gives the totals that it gives
\* when the formula is parsed with an empty ion table.
C26_ImplicitIonKeepsTotals ==
    (pc = "flattened" /\ NoParens) =>
        /\ parse_formula(formula, {}).error = ""
        /\ SameTotals(atom_map, flatten(parse_formula(formula, {}).children))

\* C27: in every token stream returned by tokenize the START and END tokens
\* are matched: no prefix has more ENDs than STARTs and the whole stream has
\* as many STARTs as ENDs.
C27_StartEndMatched ==
    Returned => ProperlyNested(tokens)

\* an element symbol: one upper-case letter, then lower-case letters
ElementSymbol(s) ==
    /\ Len(s) >= 1
    /\ s[1] \in Upper
    /\ \A i \in 2..Len(s) : s[i] \in Lower

\* C28: every SYMBOL token in the token list is one upper-case letter followed
\* by lower-case letters, at every point of the scan and in the returned
\* stream; an input that would start a symbol with a lower-case letter does
\* not yield such a token.
C28_SymbolTokensCapitalized ==
    \A i \in 1..Len(tokens) : tokens[i].type = "SYMBOL" => ElementSymbol(tokens[i].value)

\* the value is a Count: a fraction in lowest terms with a positive denominator
IsCount(c) ==
    /\ c.n \in Int
    /\ c.d \in Nat \ {0}
    /\ GCD(IF c.n < 0 THEN -c.n ELSE c.n, c.d) = 1

\* C29: the tree returned by parse_formula has the shape root -> COMPOUND ->
\* ATOM or POLYATOMIC_ION -> ATOM: the root has one COMPOUND per
\* '*'-separated compound, a COMPOUND holds only ATOM and POLYATOMIC_ION
\* nodes, a POLYATOMIC_ION holds only ATOM nodes, an ATOM holds nothing, and
\* every multiplicity is a Count.
C29_TreeShape ==
    pc \in {"parsed", "flattened"} =>
        /\ Len(children) = TypeCount(tokens, "COMBINDED_WITH") + 1
        /\ \A k \in 1..Len(children) : children[k].type = "COMPOUND"
        /\ \A n \in AllNodes(children) :
              /\ IsCount(n.count)
              /\ n.type = "COMPOUND" =>
                    \A i \in 1..Len(n.children) :
                        n.children[i].type \in {"ATOM", "POLYATOMIC_ION"}
              /\ n.type = "POLYATOMIC_ION" =>
                    \A i \in 1..Len(n.children) : n.children[i].type = "ATOM"
              /\ n.type = "ATOM" => n.children = << >>

\* C29 witness: a returned tree with two compounds, an ATOM directly under a
\* COMPOUND and a POLYATOMIC_ION that holds an ATOM
C29_Witness ==
    /\ pc = "parsed"
    /\ Len(children) >= 2
    /\ \E k \in 1..Len(children) : \E i \in 1..Len(children[k].children) :
          children[k].children[i].type = "ATOM"
    /\ \E n \in AllNodes(children) :
          n.type = "POLYATOMIC_ION" /\ n.children # << >>
          /\ \A i \in 1..Len(n.children) : n.children[i].type = "ATOM"

\* the orders of a sequence
Orders(s) ==
    {[i \in 1..Len(s) |-> s[p[i]]] :
        p \in {q \in [1..Len(s) -> 1..Len(s)] :
                  \A i, j \in 1..Len(s) : q[i] = q[j] => i = j}}

\* the trees that differ from a tree in the order of the compounds of the
\* root, of the children of one compound, or of the children of one ion
Reordered(tree) ==
    Orders(tree)
    \cup UNION {{[tree EXCEPT ![k].children = o] : o \in Orders(tree[k].children)} :
                   k \in 1..Len(tree)}
    \cup UNION {UNION {{[tree EXCEPT ![k].children[i].children = o] :
                           o \in Orders(tree[k].children[i].children)} :
                          i \in 1..Len(tree[k].children)} :
                   k \in 1..Len(tree)}

\* no symbol has two entries
OneEntryPerSymbol(m) == \A i, j \in 1..Len(m) : m[i].symbol = m[j].symbol => i = j

\* C30: flatten() returns one entry per element symbol, which holds the sum
\* of the amounts of all occurrences of the symbol; the mapping is the same
\* for every order of the children of a node and of the compounds of the
\* root; and the call leaves the tree as it was.
C30_FlattenSumsPerSymbol ==
    [][(pc = "parsed" /\ pc' = "flattened") =>
          /\ children' = children
          /\ OneEntryPerSymbol(atom_map')
          /\ SameTotals(atom_map', FlattenChildren(children))
          /\ \A tree \in Reordered(children) : SameTotals(flatten(tree), atom_map')]_vars

\* C30 witness: flatten() has run on a tree with two compounds, a node with
\* two children and a symbol that occurs more than once
C30_Witness ==
    /\ pc = "flattened"
    /\ Len(children) >= 2
    /\ \E k \in 1..Len(children) : Len(children[k].children) >= 2
    /\ Len(FlattenChildren(children)) > Len(atom_map)

\* some END token has no unmatched START before it
UnmatchedEnd(toks) ==
    \E i \in 1..Len(toks) :
        /\ toks[i].type = "POLYATOMIC_END"
        /\ TypeCount(SubSeq(toks, 1, i - 1), "POLYATOMIC_START")
               <= TypeCount(SubSeq(toks, 1, i - 1), "POLYATOMIC_END")

SuffixAt(f, i, w) ==
    /\ i + Len(w) + 1 <= Len(f)
    /\ f[i] = "("
    /\ SubSeq(f, i + 1, i + Len(w)) = w
    /\ f[i + Len(w) + 1] = ")"

\* an input without a '[' coefficient and without a state suffix
PlainInput(f) ==
    /\ ~Contains(f, "[")
    /\ \A i \in 1..Len(f) : \A w \in StateWords : ~SuffixAt(f, i, w)

\* C32: the tokenizer neither loses, duplicates nor reorders input: for an
\* accepted input without '[' and without a state suffix, tokenized with an
\* ion table that matches nothing, the values of the returned tokens joined
\* in order spell the input.
C32_TokensSpellInput ==
    (Returned /\ ions = {} /\ PlainInput(formula)) => TextFrom(tokens, 1) = formula

=============================================================================
